---- MODULE Spec2Model ----
(***************************************************************************)
(* Model of the kr-pricing quote builder.                                  *)
(*                                                                         *)
(* Seven specifications share this module:                                 *)
(*   SpecEditor  the custom line editor (components/Settings.tsx, second   *)
(*               part): field validation, weight preview, material change  *)
(*   SpecEngine  the pricing engine behind POST /quote                     *)
(*   Spec        the application (old/App.tsx): line list, submitQuote,    *)
(*               the request/response exchange, administrative deletes     *)
(*   SpecSession the same application over a session: sign-in, sign-out,   *)
(*               quote, history and quote detail requests whose responses  *)
(*               arrive in any order; SpecSessionLive adds that every      *)
(*               createQuote promise settles                               *)
(*   SpecService the backend's workers computing quotes side by side while *)
(*               the reference tables are edited                           *)
(*   SpecSettings the Settings dialog (components/Settings.tsx, first part):*)
(*               row editing, save, cancel and the two-click delete        *)
(*                                                                         *)
(* Units.  gauge is counted in thousandths of an inch (0.009 -> 9), width  *)
(* and length in whole inches, weight factors in hundredths (0.05 -> 5),   *)
(* so a weight is an exact integer number of 1/WeightScale lb.  Money is   *)
(* whole dollars.                                                          *)
(***************************************************************************)
EXTENDS Integers, Sequences, FiniteSets, TLC

VARIABLES
    \* ---- custom line editor ----
    edLine,        \* the CustomLine the editor is rendering (props.line)
    edRender,      \* what the last render computed (validations, weightInfo)
    \* ---- pricing engine ----
    engReq,        \* the QuoteRequest being priced
    engTables,     \* the reference tables snapshot the computation reads
    engPhase,      \* "validate" | "price" | "minimum" | "done" | "failed"
    engErrors,     \* validation errors found, in line order
    engPriced,     \* LinePriceResult[] built by the pricing phase
    engResult,     \* the outcome handed to the caller
    \* ---- application ----
    account,       \* signed-in account or NoAccount
    customerId,    \* selected customer id ("" = none)
    includeFreight,
    items,         \* item list loaded by the frontend
    lines,         \* QuoteLineInput[]
    quote,         \* QuoteResponse or NoQuote
    error,         \* error message or NoError
    loadingQuote,
    pending,       \* the submitQuote call in flight, or NoPending
    customers,     \* customer list loaded by the frontend
    quotesHistory, \* QuoteSummary[]
    loadingHistory,
    histPending,   \* history fetches in flight
    itemTable,     \* the backend's item table (changed by DELETE /items)
    selectedQuote, \* the QuoteRecord shown under the history, or NoQuote
    detail,        \* quote detail requests: ids in flight, latest id selected
    initPending,   \* loadInitial calls in flight
    \* ---- quote service ----
    svcTables,     \* the live reference tables of the backend
    svcJobs,       \* per worker, the quote computation it is running
    svcKept,       \* an earlier finished computation, kept for comparison
    svcServed,     \* computations finished and handed back so far
    \* ---- Settings dialog ----
    activeTab,       \* "customers" | "items"
    editingCustomer, \* id of the customer row in edit mode, or Null
    editingItem,     \* sku of the item row in edit mode, or Null
    editValues,      \* Record<string, string>: the edit inputs' values
    confirmDelete,   \* key of the row whose Delete was clicked once, or Null
    lastDeleteClick, \* the row of the latest Delete click (history)
    lastCall         \* the callback prop the latest handler invoked

edVars  == <<edLine, edRender>>
engVars == <<engReq, engTables, engPhase, engErrors, engPriced, engResult>>
appVars == <<account, customerId, includeFreight, items, lines, quote, error,
             loadingQuote, pending, customers, quotesHistory, loadingHistory,
             histPending, itemTable, selectedQuote, detail, initPending>>
sessVars == <<selectedQuote, detail, initPending>>
svcVars == <<svcTables, svcJobs, svcKept, svcServed>>
stgVars == <<activeTab, editingCustomer, editingItem, editValues, confirmDelete,
             lastDeleteClick, lastCall>>
vars    == <<edVars, engVars, appVars, svcVars, stgVars>>

(***************************************************************************)
(* Arithmetic helpers                                                      *)
(***************************************************************************)
Min2(a, b) == IF a <= b THEN a ELSE b
Max2(a, b) == IF a >= b THEN a ELSE b

\* Math.ceil(a / b) for a >= 0, b > 0
CeilDiv(a, b) == (a + b - 1) \div b

\* one pound, in weight units: hundredths (factor) x thousandths (gauge)
WeightScale == 100 * 1000

\* a gauge written in inches as n/1000
Mil(n) == n

(***************************************************************************)
(* types.ts : constants                                                    *)
(***************************************************************************)
CUSTOM_MATERIALS == <<"Vinyl", "Styrene", "APET">>
MATERIALS == CUSTOM_MATERIALS

VINYL_COLORS   == <<"White", "Clear", "Stock Color">>
STYRENE_COLORS == <<"White", "Translucent White", "Dead White">>
APET_COLORS    == <<"Clear">>

VINYL_SURFACES   == <<"Matte/Matte", "Gloss/Gloss", "Gloss/Matte", "Velvet One Side">>
STYRENE_SURFACES == <<"Matte/Matte", "Gloss/Matte">>
APET_SURFACES    == <<"Gloss/Gloss">>

MATERIAL_CONSTRAINTS ==
    [Vinyl   |-> [gauge  |-> [min |-> Mil(9),  max |-> Mil(30)],
                  width  |-> [min |-> 20, max |-> 50],
                  length |-> [min |-> 20, max |-> 70],
                  weightFactor |-> 5],
     APET    |-> [gauge  |-> [min |-> Mil(9),  max |-> Mil(30)],
                  width  |-> [min |-> 20, max |-> 50],
                  length |-> [min |-> 20, max |-> 70],
                  weightFactor |-> 5],
     Styrene |-> [gauge  |-> [min |-> Mil(9),  max |-> Mil(250)],
                  width  |-> [min |-> 20, max |-> 65],
                  length |-> [min |-> 20, max |-> 130],
                  weightFactor |-> 4]]

DEFAULT_CUSTOM_VALUES ==
    [kind |-> "custom", material |-> "Vinyl", color |-> "White",
     surface |-> "Matte/Matte", gauge |-> Mil(15), width |-> 36,
     length |-> 48, sheets |-> 100, description |-> ""]

MINIMUM_WEIGHT_LBS == 2000
MINIMUM_ORDER_VALUE == 150
WIDE_SHEET_THRESHOLD == 47
WIDE_SHEET_MINIMUM_VALUE == 550

(***************************************************************************)
(* components/Settings.tsx (second part) : CustomLineEditor                *)
(***************************************************************************)
getColorOptions(material) ==
    IF material = "Vinyl" THEN VINYL_COLORS
    ELSE IF material = "Styrene" THEN STYRENE_COLORS
    ELSE IF material = "APET" THEN APET_COLORS
    ELSE <<"White", "Clear">>

getSurfaceOptions(material) ==
    IF material = "Vinyl" THEN VINYL_SURFACES
    ELSE IF material = "Styrene" THEN STYRENE_SURFACES
    ELSE IF material = "APET" THEN APET_SURFACES
    ELSE VINYL_SURFACES

\* MATERIAL_CONSTRAINTS is a plain object literal: indexing it with a name
\* that Object.prototype defines yields the inherited property, which is
\* truthy, so the `||` does not fall through to the Vinyl entry.
ObjectPrototypeKeys ==
    {"constructor", "toString", "valueOf", "hasOwnProperty", "__proto__"}

InheritedProperty(key) == [inherited |-> key]

\* MATERIAL_CONSTRAINTS[material] || MATERIAL_CONSTRAINTS.Vinyl
getConstraints(material) ==
    IF material \in DOMAIN MATERIAL_CONSTRAINTS
    THEN MATERIAL_CONSTRAINTS[material]
    ELSE IF material \in ObjectPrototypeKeys
    THEN InheritedProperty(material)
    ELSE MATERIAL_CONSTRAINTS.Vinyl

Valid == [isValid |-> TRUE, message |-> <<>>]
Invalid(which, bound) == [isValid |-> FALSE, message |-> <<which, bound>>]

validateGauge_StrictBounds(value, material) ==
    LET constraints == getConstraints(material) IN
    IF value <= constraints.gauge.min THEN Invalid("Min", constraints.gauge.min)
    ELSE IF value >= constraints.gauge.max THEN Invalid("Max", constraints.gauge.max)
    ELSE Valid

validateGauge(value, material) ==
    LET constraints == getConstraints(material) IN
    IF value < constraints.gauge.min THEN Invalid("Min", constraints.gauge.min)
    ELSE IF value > constraints.gauge.max THEN Invalid("Max", constraints.gauge.max)
    ELSE Valid

validateWidth(value, material) ==
    LET constraints == getConstraints(material) IN
    IF value < constraints.width.min THEN Invalid("Min", constraints.width.min)
    ELSE IF value > constraints.width.max THEN Invalid("Max", constraints.width.max)
    ELSE Valid

validateLength(value, material) ==
    LET constraints == getConstraints(material) IN
    IF value < constraints.length.min THEN Invalid("Min", constraints.length.min)
    ELSE IF value > constraints.length.max THEN Invalid("Max", constraints.length.max)
    ELSE Valid

\* the body of the useMemo callback
ComputeWeightInfo_NoMaterialFactor(line, constraints) ==
    LET weightPerSheet == MATERIAL_CONSTRAINTS.Vinyl.weightFactor
                            * line.gauge * line.width * line.length
        totalWeight    == weightPerSheet * line.sheets
    IN [weightPerSheet |-> weightPerSheet,
        totalWeight    |-> totalWeight,
        meetsMinimum   |-> totalWeight >= MINIMUM_WEIGHT_LBS * WeightScale,
        sheetsNeeded   |-> IF weightPerSheet > 0
                           THEN CeilDiv(2010 * WeightScale, weightPerSheet)
                           ELSE 0]

ComputeWeightInfo_StrictMinimum(line, constraints) ==
    LET weightPerSheet == constraints.weightFactor
                            * line.gauge * line.width * line.length
        totalWeight    == weightPerSheet * line.sheets
    IN [weightPerSheet |-> weightPerSheet,
        totalWeight    |-> totalWeight,
        meetsMinimum   |-> totalWeight > MINIMUM_WEIGHT_LBS * WeightScale,
        sheetsNeeded   |-> IF weightPerSheet > 0
                           THEN CeilDiv(2010 * WeightScale, weightPerSheet)
                           ELSE 0]

ComputeWeightInfo(line, constraints) ==
    LET weightPerSheet == constraints.weightFactor
                            * line.gauge * line.width * line.length
        totalWeight    == weightPerSheet * line.sheets
    IN [weightPerSheet |-> weightPerSheet,
        totalWeight    |-> totalWeight,
        meetsMinimum   |-> totalWeight >= MINIMUM_WEIGHT_LBS * WeightScale,
        sheetsNeeded   |-> IF weightPerSheet > 0
                           THEN CeilDiv(2010 * WeightScale, weightPerSheet)
                           ELSE 0]

\* the dependency array of the useMemo
WeightDeps(line, constraints) ==
    <<line.gauge, line.width, line.length, line.sheets, constraints.weightFactor>>

\* One render of CustomLineEditor.  prev is the previous render of the same
\* component instance (its memo cell), or NoRender on mount.
NoRender == [mounted |-> FALSE]

RenderEditor(line, prev) ==
    LET constraints      == getConstraints(line.material)
        gaugeValidation  == validateGauge(line.gauge, line.material)
        widthValidation  == validateWidth(line.width, line.material)
        lengthValidation == validateLength(line.length, line.material)
        deps             == WeightDeps(line, constraints)
        memoHit          == prev.mounted /\ prev.memoDeps = deps
        weightInfo       == IF memoHit
                            THEN prev.weightInfo
                            ELSE ComputeWeightInfo(line, constraints)
    IN [mounted          |-> TRUE,
        weightComputed   |-> ~memoHit,
        constraints      |-> constraints,
        gaugeValidation  |-> gaugeValidation,
        widthValidation  |-> widthValidation,
        lengthValidation |-> lengthValidation,
        memoDeps         |-> deps,
        weightInfo       |-> weightInfo,
        hasErrors        |-> \/ ~gaugeValidation.isValid
                             \/ ~widthValidation.isValid
                             \/ ~lengthValidation.isValid]

\* handleMaterialChange that leaves the color and the surface selected
MaterialChangePatch_KeepsSelections(line, newMaterial) ==
    [material |-> newMaterial]

\* handleMaterialChange without the clamp (components/lines/CustomLineEditor)
MaterialChangePatch_NoClamp(line, newMaterial) ==
    LET colors   == getColorOptions(newMaterial)
        surfaces == getSurfaceOptions(newMaterial)
    IN [material |-> newMaterial,
        color    |-> colors[1],
        surface  |-> surfaces[1]]

\* the patch handleMaterialChange passes to onUpdate
MaterialChangePatch(line, newMaterial) ==
    LET colors         == getColorOptions(newMaterial)
        surfaces       == getSurfaceOptions(newMaterial)
        newConstraints == getConstraints(newMaterial)
        g1 == IF line.gauge < newConstraints.gauge.min
              THEN newConstraints.gauge.min ELSE line.gauge
        newGauge == IF g1 > newConstraints.gauge.max
                    THEN newConstraints.gauge.max ELSE g1
        w1 == IF line.width < newConstraints.width.min
              THEN newConstraints.width.min ELSE line.width
        newWidth == IF w1 > newConstraints.width.max
                    THEN newConstraints.width.max ELSE w1
        l1 == IF line.length < newConstraints.length.min
              THEN newConstraints.length.min ELSE line.length
        newLength == IF l1 > newConstraints.length.max
                     THEN newConstraints.length.max ELSE l1
    IN [material |-> newMaterial,
        color    |-> colors[1],
        surface  |-> surfaces[1],
        gauge    |-> newGauge,
        width    |-> newWidth,
        length   |-> newLength]

\* { ...line, ...patch }
Merge(line, patch) ==
    [f \in DOMAIN line \cup DOMAIN patch |->
        IF f \in DOMAIN patch THEN patch[f] ELSE line[f]]

\* Number(e.target.value) || dflt, for a typed number
NumberOr(v, dflt) == IF v = 0 THEN dflt ELSE v


(***************************************************************************)
(* Reference tables of the backend (GET /customers, GET /items).           *)
(* Optional fields of an Item are absent from its record.                  *)
(***************************************************************************)
Get(rec, f, dflt) == IF f \in DOMAIN rec THEN rec[f] ELSE dflt

ItemCatalog ==
    [sku \in {"KR-4896", "KR-4848", "KR-7240", "KR-MISC"} |->
        CASE sku = "KR-4896" ->
               [sku |-> sku, description |-> "Styrene 48x96", width |-> 48,
                length |-> 96, weight_per_unit |-> 6 * WeightScale,
                avg_cost |-> 20, base_column |-> 2]
          [] sku = "KR-4848" ->
               [sku |-> sku, description |-> "Styrene 48x48", width |-> 48,
                length |-> 48, weight_per_unit |-> 3 * WeightScale,
                avg_cost |-> 10, base_column |-> 2]
          [] sku = "KR-7240" ->
               [sku |-> sku, description |-> "Vinyl roll 72x40", width |-> 72,
                length |-> 40, avg_cost |-> 15, base_column |-> 1]
          [] OTHER ->
               [sku |-> sku, description |-> "Corner guards"]]

CustomerRegistry ==
    [id \in {"CUST-A", "CUST-B"} |->
        IF id = "CUST-A"
        THEN [id |-> id, name |-> "ABC Plastics", column_break |-> "VN8",
              freight_column_offset |-> 2]
        ELSE [id |-> id, name |-> "Column 1"]]

\* a table with some keys deleted
Without(table, keys) == [k \in DOMAIN table \ keys |-> table[k]]

(***************************************************************************)
(* Pricing engine (POST /quote)                                            *)
(***************************************************************************)
\* ConstraintTable.constraintsFor: the entry of the material, or the default
constraintsFor(material) ==
    IF material \in DOMAIN MATERIAL_CONSTRAINTS
    THEN MATERIAL_CONSTRAINTS[material]
    ELSE MATERIAL_CONSTRAINTS.Vinyl

OutOfRange(field, range) ==
    [type |-> "OutOfRange", field |-> field, min |-> range.min, max |-> range.max]
UnknownSku(sku) == [type |-> "UnknownSku", sku |-> sku]
UnknownCustomer(id) == [type |-> "UnknownCustomer", customer_id |-> id]
InvalidValue(field) == [type |-> "InvalidValue", field |-> field]
EmptyLineList == [type |-> "EmptyLineList"]
NoLineError == [type |-> "none"]

InRange(v, range) == range.min <= v /\ v <= range.max

\* sheets >= 1; there is no upper bound (max 0 stands for "none")
SheetsRange == [min |-> 1, max |-> 0]

\* a LineValidator that checks the gauge and the sheets of a custom line but
\* not its width and length
ValidateLine_NoDimensionCheck(line, tables) ==
    IF line.type = "stock" THEN
        IF line.sku \in DOMAIN tables.items THEN NoLineError
        ELSE UnknownSku(line.sku)
    ELSE IF line.type = "custom" THEN
        LET c == constraintsFor(line.material) IN
        IF ~InRange(line.gauge, c.gauge) THEN OutOfRange("gauge", c.gauge)
        ELSE IF line.sheets < SheetsRange.min THEN OutOfRange("sheets", SheetsRange)
        ELSE NoLineError
    ELSE
        IF line.weight_per_unit < 0 THEN InvalidValue("weight_per_unit")
        ELSE IF line.landed_cost_per_unit < 0 THEN InvalidValue("landed_cost_per_unit")
        ELSE IF line.quantity < 1 THEN InvalidValue("quantity")
        ELSE NoLineError

\* LineValidator: the first failing check of one line, or NoLineError
ValidateLine(line, tables) ==
    IF line.type = "stock" THEN
        IF line.sku \in DOMAIN tables.items THEN NoLineError
        ELSE UnknownSku(line.sku)
    ELSE IF line.type = "custom" THEN
        LET c == constraintsFor(line.material) IN
        IF ~InRange(line.gauge, c.gauge) THEN OutOfRange("gauge", c.gauge)
        ELSE IF ~InRange(line.width, c.width) THEN OutOfRange("width", c.width)
        ELSE IF ~InRange(line.length, c.length) THEN OutOfRange("length", c.length)
        ELSE IF line.sheets < SheetsRange.min THEN OutOfRange("sheets", SheetsRange)
        ELSE NoLineError
    ELSE
        IF line.weight_per_unit < 0 THEN InvalidValue("weight_per_unit")
        ELSE IF line.landed_cost_per_unit < 0 THEN InvalidValue("landed_cost_per_unit")
        ELSE IF line.quantity < 1 THEN InvalidValue("quantity")
        ELSE NoLineError

\* every error of the request, request-level ones first (index 0), then the
\* failing lines in line order
RECURSIVE LineErrors(_, _, _)
LineErrors(reqLines, tables, i) ==
    IF i > Len(reqLines) THEN <<>>
    ELSE LET e == ValidateLine(reqLines[i], tables) IN
         (IF e = NoLineError THEN <<>> ELSE <<[index |-> i, error |-> e]>>)
            \o LineErrors(reqLines, tables, i + 1)

ValidateRequest(req, tables) ==
    (IF req.customer_id \in DOMAIN tables.customers THEN <<>>
     ELSE <<[index |-> 0, error |-> UnknownCustomer(req.customer_id)]>>)
    \o (IF Len(req.lines) = 0 THEN <<[index |-> 0, error |-> EmptyLineList]>>
        ELSE <<>>)
    \o LineErrors(req.lines, tables, 1)

\* WeightCalculator
WeightPerUnit(line, tables) ==
    IF line.type = "stock" THEN Get(tables.items[line.sku], "weight_per_unit", 0)
    ELSE IF line.type = "custom" THEN
        constraintsFor(line.material).weightFactor
            * line.gauge * line.width * line.length
    ELSE line.weight_per_unit

\* injected pricing function costPerSheet(material, weightPerSheet):
\* whole dollars per pound, by material
CostPerLb(material) == IF material = "Styrene" THEN 3 ELSE 2
costPerSheet(material, weightPerSheet) ==
    CeilDiv(CostPerLb(material) * weightPerSheet, WeightScale)

\* UnitCostResolver
BaseCostPerUnit(line, tables) ==
    IF line.type = "stock" THEN Get(tables.items[line.sku], "avg_cost", 0)
    ELSE IF line.type = "custom" THEN
        costPerSheet(line.material, WeightPerUnit(line, tables))
    ELSE line.landed_cost_per_unit

\* FreightColumnResolver
MaterialBaseColumn(material) == IF material = "Styrene" THEN 2 ELSE 1

BaseColumn(line, tables) ==
    IF line.type = "stock" THEN Get(tables.items[line.sku], "base_column", 0)
    ELSE IF line.type = "custom" THEN MaterialBaseColumn(line.material)
    ELSE 0

TotalColumn_AlwaysShifted(line, req, tables) ==
    BaseColumn(line, tables)
      + Get(tables.customers[req.customer_id], "freight_column_offset", 0)

TotalColumn(line, req, tables) ==
    BaseColumn(line, tables)
      + (IF req.include_freight
         THEN Get(tables.customers[req.customer_id], "freight_column_offset", 0)
         ELSE 0)

\* injected lookup sellPricePerUnit(column, ...): the column's markup on cost,
\* in whole dollars per unit
sellPricePerUnit(baseCost, column) == baseCost + column

PricingQuantity(line) == IF line.type = "custom" THEN line.sheets ELSE line.quantity

PriceLine(line, req, tables) ==
    LET quantity == PricingQuantity(line)
        column   == TotalColumn(line, req, tables)
        cost     == BaseCostPerUnit(line, tables)
        sell     == sellPricePerUnit(cost, column)
        ident    == IF line.type = "stock"
                    THEN [sku |-> line.sku,
                          description |-> tables.items[line.sku].description]
                    ELSE [sku |-> "", description |-> line.description]
    IN [type                |-> line.type,
        sku                 |-> ident.sku,
        description         |-> ident.description,
        quantity            |-> quantity,
        weight_per_unit     |-> WeightPerUnit(line, tables),
        base_cost_per_unit  |-> cost,
        sell_price_per_unit |-> sell,
        extended_sell_price |-> sell * quantity,
        total_column        |-> column]

PriceLines(req, tables) ==
    [i \in 1..Len(req.lines) |-> PriceLine(req.lines[i], req, tables)]

RECURSIVE SumExtended(_)
SumExtended(priced) ==
    IF Len(priced) = 0 THEN 0
    ELSE priced[1].extended_sell_price + SumExtended(Tail(priced))

\* MinimumOrderEnforcer, order-value minimum
LARGE_SHEET_MIN_DIMENSION == 40
LARGE_SHEET_MAX_DIMENSION == 72

IsLargeSheet_WidthOnly(width, length) == width > WIDE_SHEET_THRESHOLD

IsLargeSheet(width, length) ==
    /\ Min2(width, length) >= LARGE_SHEET_MIN_DIMENSION
    /\ Max2(width, length) >= LARGE_SHEET_MAX_DIMENSION

\* nominal dimensions of a line: requested (custom) or catalog (stock)
HasNominalDims(line, tables) ==
    \/ line.type = "custom"
    \/ /\ line.type = "stock"
       /\ "width" \in DOMAIN tables.items[line.sku]
       /\ "length" \in DOMAIN tables.items[line.sku]

NominalDims(line, tables) ==
    IF line.type = "custom" THEN [width |-> line.width, length |-> line.length]
    ELSE [width  |-> tables.items[line.sku].width,
          length |-> tables.items[line.sku].length]

ApplicableFloor(req, tables) ==
    IF \E i \in 1..Len(req.lines) :
          /\ HasNominalDims(req.lines[i], tables)
          /\ IsLargeSheet(NominalDims(req.lines[i], tables).width,
                          NominalDims(req.lines[i], tables).length)
    THEN WIDE_SHEET_MINIMUM_VALUE
    ELSE MINIMUM_ORDER_VALUE

\* apply_order_minimums + QuoteAggregator: one top-up for the whole quote
ApplyOrderMinimums_PerLine(priced, req, tables) ==
    LET floor   == ApplicableFloor(req, tables)
        natural == SumExtended(priced)
        raised  == [i \in 1..Len(priced) |->
                      [priced[i] EXCEPT !.extended_sell_price =
                          Max2(priced[i].extended_sell_price, floor)]]
    IN [status           |-> "ok",
        applicable_floor |-> floor,
        natural_total    |-> natural,
        minimum_top_up   |-> SumExtended(raised) - natural,
        response |-> [customer_id     |-> req.customer_id,
                      include_freight |-> req.include_freight,
                      lines           |-> raised,
                      quote_total     |-> SumExtended(raised)]]

ApplyOrderMinimums_NoTopUp(priced, req, tables) ==
    LET floor   == ApplicableFloor(req, tables)
        natural == SumExtended(priced)
    IN [status           |-> "ok",
        applicable_floor |-> floor,
        natural_total    |-> natural,
        minimum_top_up   |-> 0,
        response |-> [customer_id     |-> req.customer_id,
                      include_freight |-> req.include_freight,
                      lines           |-> priced,
                      quote_total     |-> natural]]

ApplyOrderMinimums_Unconditional(priced, req, tables) ==
    LET floor   == ApplicableFloor(req, tables)
        natural == SumExtended(priced)
        topUp   == floor - natural
    IN [status           |-> "ok",
        applicable_floor |-> floor,
        natural_total    |-> natural,
        minimum_top_up   |-> topUp,
        response |-> [customer_id     |-> req.customer_id,
                      include_freight |-> req.include_freight,
                      lines           |-> priced,
                      quote_total     |-> natural + topUp]]

ApplyOrderMinimums(priced, req, tables) ==
    LET floor   == ApplicableFloor(req, tables)
        natural == SumExtended(priced)
        topUp   == IF natural < floor THEN floor - natural ELSE 0
    IN [status           |-> "ok",
        applicable_floor |-> floor,
        natural_total    |-> natural,
        minimum_top_up   |-> topUp,
        response |-> [customer_id     |-> req.customer_id,
                      include_freight |-> req.include_freight,
                      lines           |-> priced,
                      quote_total     |-> natural + topUp]]

ValidationFailure(errors) == [status |-> "ValidationError", errors |-> errors]

\* the whole computation, as the request handler runs it
ComputeQuote(req, tables) ==
    LET errors == ValidateRequest(req, tables) IN
    IF Len(errors) > 0 THEN ValidationFailure(errors)
    ELSE ApplyOrderMinimums(PriceLines(req, tables), req, tables)


(***************************************************************************)
(* Values the variables of a specification hold while another one runs     *)
(***************************************************************************)
NoAccount  == [tag |-> "none"]
NoQuote    == [tag |-> "none"]
NoError    == [tag |-> "none"]
NoPending  == [tag |-> "none"]
NoRequest  == [tag |-> "none"]
NoResult   == [status |-> "none"]

FullTables == [items |-> ItemCatalog, customers |-> CustomerRegistry]

EdIdle ==
    /\ edLine = DEFAULT_CUSTOM_VALUES
    /\ edRender = NoRender

EngIdle ==
    /\ engReq = NoRequest
    /\ engTables = FullTables
    /\ engPhase = "idle"
    /\ engErrors = <<>>
    /\ engPriced = <<>>
    /\ engResult = NoResult

NoKept  == [tag |-> "none"]
IdleJob == [phase |-> "idle"]
Workers == {"w1", "w2"}

SvcIdle ==
    /\ svcTables = FullTables
    /\ svcJobs = [w \in Workers |-> IdleJob]
    /\ svcKept = NoKept
    /\ svcServed = 0

\* JavaScript null in a string-valued state
Null == "(null)"

\* {} : no key
EmptyValues == [f \in {} |-> ""]

NoCall        == [fn |-> "none", key |-> Null, updates |-> EmptyValues]
NoDeleteClick == [kind |-> "none", key |-> Null]

StgIdle ==
    /\ activeTab = "customers"
    /\ editingCustomer = Null
    /\ editingItem = Null
    /\ editValues = EmptyValues
    /\ confirmDelete = Null
    /\ lastDeleteClick = NoDeleteClick
    /\ lastCall = NoCall

\* no quote detail requested yet (quote ids start at 1)
NoDetail == [inFlight |-> {}, latest |-> 0]

AppIdle ==
    /\ account = NoAccount
    /\ customerId = ""
    /\ includeFreight = TRUE
    /\ items = <<>>
    /\ lines = <<>>
    /\ quote = NoQuote
    /\ error = NoError
    /\ loadingQuote = FALSE
    /\ pending = NoPending
    /\ customers = <<>>
    /\ quotesHistory = <<>>
    /\ loadingHistory = FALSE
    /\ histPending = 0
    /\ itemTable = ItemCatalog
    /\ selectedQuote = NoQuote
    /\ detail = NoDetail
    /\ initPending = 0

(***************************************************************************)
(* SpecEditor: one CustomLineEditor. Every handler calls onUpdate, which   *)
(* replaces the line, and the component renders again.                     *)
(***************************************************************************)
GaugeInputs  == {0, 8, 9, 15, 30, 31, 250, 251}
WidthInputs  == {0, 19, 20, 40, 50, 51, 65, 66}
LengthInputs == {19, 20, 70, 71, 100, 130, 131}
SheetInputs  == {0, 49, 50, 100}

EdUpdate(patch) ==
    /\ edLine' = Merge(edLine, patch)
    /\ edRender' = RenderEditor(edLine', edRender)
    /\ UNCHANGED <<engVars, appVars, svcVars, stgVars>>

EdInit ==
    /\ edLine = DEFAULT_CUSTOM_VALUES
    /\ edRender = RenderEditor(edLine, NoRender)
    /\ EngIdle
    /\ AppIdle
    /\ SvcIdle
    /\ StgIdle

EdMaterialChange ==
    \E m \in {MATERIALS[i] : i \in DOMAIN MATERIALS} :
        EdUpdate(MaterialChangePatch(edLine, m))

EdSetColor ==
    \E i \in DOMAIN getColorOptions(edLine.material) :
        EdUpdate([color |-> getColorOptions(edLine.material)[i]])

EdSetSurface ==
    \E i \in DOMAIN getSurfaceOptions(edLine.material) :
        EdUpdate([surface |-> getSurfaceOptions(edLine.material)[i]])

EdSetGauge  == \E v \in GaugeInputs  : EdUpdate([gauge  |-> NumberOr(Mil(v), 0)])
EdSetWidth  == \E v \in WidthInputs  : EdUpdate([width  |-> NumberOr(v, 0)])
EdSetLength == \E v \in LengthInputs : EdUpdate([length |-> NumberOr(v, 0)])
EdSetSheets == \E v \in SheetInputs  : EdUpdate([sheets |-> NumberOr(v, 1)])

EdNext ==
    \/ EdMaterialChange
    \/ EdSetColor
    \/ EdSetSurface
    \/ EdSetGauge
    \/ EdSetWidth
    \/ EdSetLength
    \/ EdSetSheets

SpecEditor == EdInit /\ [][EdNext]_vars


(***************************************************************************)
(* SpecEngine: one quote computation, from a request and a table snapshot  *)
(* drawn from bounded sets, run phase by phase:                            *)
(*   LineValidator -> Weight/Cost/Column (per line) -> MinimumOrderEnforcer *)
(*   -> QuoteAggregator                                                    *)
(***************************************************************************)
MaxReqLines == 2

StockReq(sku, quantity) == [type |-> "stock", quantity |-> quantity, sku |-> sku]

CustomReq(material, gauge, width, length, sheets) ==
    [type |-> "custom", quantity |-> sheets, material |-> material,
     color |-> getColorOptions(material)[1],
     surface |-> getSurfaceOptions(material)[1],
     gauge |-> gauge, width |-> width, length |-> length, sheets |-> sheets,
     description |-> ""]

AdHocReq(cost, quantity) ==
    [type |-> "ad_hoc", quantity |-> quantity, description |-> "Pallet fee",
     weight_per_unit |-> 1 * WeightScale, landed_cost_per_unit |-> cost]

\* width x length of the custom lines drawn: the worked table of the
\* changelog, and the sizes next to the two thresholds
EngineDims ==
    {<<48, 48>>, <<36, 48>>, <<47, 47>>, <<40, 72>>, <<48, 96>>,
     <<39, 72>>, <<40, 71>>}

EngineLines ==
    {StockReq("KR-4896", 1), StockReq("KR-4896", 40), StockReq("KR-4848", 1),
     StockReq("KR-7240", 1), StockReq("KR-MISC", 1)}
    \cup {CustomReq("Styrene", Mil(30), d[1], d[2], 10) : d \in EngineDims}
    \cup {CustomReq("Vinyl", Mil(8), 36, 48, 10), CustomReq("Vinyl", Mil(9), 36, 48, 10)}
    \cup {CustomReq("PETG", Mil(30), 36, 48, 10), CustomReq("constructor", Mil(30), 36, 48, 10)}
    \cup {CustomReq("Vinyl", Mil(30), 50, 70, 10), CustomReq("Vinyl", Mil(30), 50, 72, 10),
          CustomReq("APET", Mil(30), 50, 70, 10)}
    \cup {AdHocReq(100, 1), AdHocReq(700, 1), AdHocReq(100, 0)}

SeqsUpTo(S, n) == UNION {[1..k -> S] : k \in 0..n}

EngineRequests ==
    [customer_id : {"CUST-A", "CUST-B", "CUST-GONE"},
     include_freight : BOOLEAN,
     lines : SeqsUpTo(EngineLines, MaxReqLines)]

\* the tables as loaded, or after an administrative DELETE /items/KR-4848
EngineSnapshots ==
    {FullTables,
     [items |-> Without(ItemCatalog, {"KR-4848"}), customers |-> CustomerRegistry]}

EngInit ==
    /\ engReq \in EngineRequests
    /\ engTables \in EngineSnapshots
    /\ engPhase = "validate"
    /\ engErrors = <<>>
    /\ engPriced = <<>>
    /\ engResult = NoResult
    /\ EdIdle
    /\ AppIdle
    /\ SvcIdle
    /\ StgIdle

EngValidate ==
    /\ engPhase = "validate"
    /\ engErrors' = ValidateRequest(engReq, engTables)
    /\ IF Len(engErrors') > 0
       THEN /\ engPhase' = "failed"
            /\ engResult' = ValidationFailure(engErrors')
       ELSE /\ engPhase' = "price"
            /\ engResult' = engResult
    /\ UNCHANGED <<engReq, engTables, engPriced, edVars, appVars, svcVars, stgVars>>

EngPrice ==
    /\ engPhase = "price"
    /\ engPriced' = PriceLines(engReq, engTables)
    /\ engPhase' = "minimum"
    /\ UNCHANGED <<engReq, engTables, engErrors, engResult, edVars, appVars, svcVars, stgVars>>

EngApplyMinimums ==
    /\ engPhase = "minimum"
    /\ engResult' = ApplyOrderMinimums(engPriced, engReq, engTables)
    /\ engPhase' = "done"
    /\ UNCHANGED <<engReq, engTables, engErrors, engPriced, edVars, appVars, svcVars, stgVars>>

EngNext ==
    \/ EngValidate
    \/ EngPrice
    \/ EngApplyMinimums

SpecEngine == EngInit /\ [][EngNext]_vars


(***************************************************************************)
(* Spec: the application (old/App.tsx) with the backend it talks to, from  *)
(* the signed-out page on: sign-in, the initial load of customers and      *)
(* items, the line list, submitQuote and the history refresh.  Spec edits  *)
(* lines of every kind within one signed-in session; SpecSession adds      *)
(* sign-out, the Refresh History button and the quote detail requests.     *)
(* Not modelled: a failing initial load, authError, showRawQuoteJson, the  *)
(* loadingInit flag and the token                                          *)
(* value (getAccessToken never throws: it returns a token or undefined, so *)
(* submitQuote always goes on to build the payload from the lines of the   *)
(* render that was clicked).  The freight checkbox keeps its initial       *)
(* value, and the customer select is not turned back to its placeholder.   *)
(***************************************************************************)
MaxLines == 2
MaxHistoryInFlight == 1

\* GET /items and GET /customers list the tables in catalog order
ItemOrder == <<"KR-4896", "KR-4848", "KR-7240", "KR-MISC">>
CustomerOrder == <<"CUST-A", "CUST-B">>

ListItems(table) ==
    LET Present(k) == k \in DOMAIN table
        keys == SelectSeq(ItemOrder, Present)
    IN [i \in 1..Len(keys) |-> table[keys[i]]]

ListCustomers == [i \in 1..Len(CustomerOrder) |-> CustomerRegistry[CustomerOrder[i]]]

\* api.ts jsonFetch: a response that is not ok is thrown as an Error
jsonFetch_IgnoresStatus(res) == [ok |-> TRUE, value |-> res.body]

jsonFetch(res) ==
    IF ~res.ok
    THEN [ok |-> FALSE, message |-> [status |-> res.status, text |-> res.body]]
    ELSE [ok |-> TRUE, value |-> res.body]

\* POST /quote: the engine's outcome as an HTTP response
PostQuote(req, tables) ==
    LET result == ComputeQuote(req, tables) IN
    IF result.status = "ok"
    THEN [ok |-> TRUE, status |-> 200, body |-> result.response]
    ELSE [ok |-> FALSE, status |-> 400, body |-> [errors |-> result.errors]]

\* old/App.tsx line management
StockLine(sku) == [kind |-> "stock", itemSku |-> sku, quantity |-> 1]

NewCustomLine ==
    [kind |-> "custom", material |-> "Vinyl", color |-> "White",
     surface |-> "Gloss/Gloss", gauge |-> 10 * 1000, width |-> 48, length |-> 96,
     sheets |-> 100, description |-> ""]

NewAdHocLine ==
    [kind |-> "ad_hoc", description |-> "", weightPerUnit |-> 1 * WeightScale,
     landedCostPerUnit |-> 0, quantity |-> 1]

\* prev.map((line, i) => i === index ? { ...line, ...patch } : line)
updateLine(prev, index, patch) ==
    [i \in 1..Len(prev) |-> IF i - 1 = index THEN Merge(prev[i], patch) ELSE prev[i]]

\* a removeLine that filters by the line's value: prev.filter(l => l is not
\* equal to prev[index])
removeLine_EveryEqualLine(prev, index) ==
    IF index < 0 \/ index >= Len(prev) THEN prev
    ELSE SelectSeq(prev, LAMBDA l : l # prev[index + 1])

\* prev.filter((_, i) => i !== index)
removeLine(prev, index) ==
    LET keep == {i \in 1..Len(prev) : i - 1 # index}
        Pos(k) == CHOOSE i \in keep : Cardinality({j \in keep : j < i}) = k - 1
    IN [k \in 1..Cardinality(keep) |-> prev[Pos(k)]]

ToBackendLine_QuantityField(line) ==
    IF line.kind = "stock" THEN
        [type |-> "stock", quantity |-> NumberOr(line.quantity, 0), sku |-> line.itemSku]
    ELSE IF line.kind = "custom" THEN
        [type |-> "custom", quantity |-> NumberOr(Get(line, "quantity", 0), 0),
         material |-> line.material, color |-> line.color, surface |-> line.surface,
         gauge |-> NumberOr(line.gauge, 0), width |-> NumberOr(line.width, 0),
         length |-> NumberOr(line.length, 0), sheets |-> NumberOr(line.sheets, 0),
         description |-> line.description]
    ELSE
        [type |-> "ad_hoc", quantity |-> NumberOr(line.quantity, 0),
         description |-> line.description,
         weight_per_unit |-> NumberOr(line.weightPerUnit, 0),
         landed_cost_per_unit |-> NumberOr(line.landedCostPerUnit, 0)]

\* submitQuote: the lines.map(...) that builds backendLines
ToBackendLine(line) ==
    IF line.kind = "stock" THEN
        [type |-> "stock", quantity |-> NumberOr(line.quantity, 0), sku |-> line.itemSku]
    ELSE IF line.kind = "custom" THEN
        [type |-> "custom", quantity |-> NumberOr(line.sheets, 0),
         material |-> line.material, color |-> line.color, surface |-> line.surface,
         gauge |-> NumberOr(line.gauge, 0), width |-> NumberOr(line.width, 0),
         length |-> NumberOr(line.length, 0), sheets |-> NumberOr(line.sheets, 0),
         description |-> line.description]
    ELSE
        [type |-> "ad_hoc", quantity |-> NumberOr(line.quantity, 0),
         description |-> line.description,
         weight_per_unit |-> NumberOr(line.weightPerUnit, 0),
         landed_cost_per_unit |-> NumberOr(line.landedCostPerUnit, 0)]

BuildBackendLines_StockFirst(uiLines) ==
    LET IsStock(l) == l.kind = "stock"
        NotStock(l) == l.kind # "stock"
        grouped == SelectSeq(uiLines, IsStock) \o SelectSeq(uiLines, NotStock)
    IN [i \in 1..Len(grouped) |-> ToBackendLine(grouped[i])]

BuildBackendLines(uiLines) ==
    [i \in 1..Len(uiLines) |-> ToBackendLine(uiLines[i])]

BuildPayload(closure) ==
    [customer_id     |-> closure.customerId,
     include_freight |-> closure.includeFreight,
     lines           |-> BuildBackendLines(closure.lines)]

QuoteError(message) == [text |-> "Failed to calculate quote", detail |-> message]
\* fetch rejected: no HTTP response
NetworkFailure == [status |-> 0, text |-> [errors |-> <<>>]]
HistoryError == [text |-> "Failed to load quote history", detail |-> NetworkFailure]

DetailError == [text |-> "Failed to load quote detail", detail |-> NetworkFailure]
SignInError == [text |-> "Please sign in to view quote details.",
                detail |-> NetworkFailure]

\* GET /quotes: the stored summaries
SavedSummaries == <<[id |-> 2], [id |-> 1]>>
\* GET /quotes/{id}: the stored record
QuoteDetail(id) == [id |-> id, tag |-> "record"]

\* what the user picks in the rows of the line list
SkuChoices   == {"KR-4848"}
CustomerChoices == {"CUST-A"}
DeletableSkus == {"KR-4848"}

MaxInitInFlight == 1
MaxDetailInFlight == 2

SignedIn == [tag |-> "account", username |-> "user@kr"]

\* the guards at the top of submitQuote
submitQuoteReturnsEarly_NoLineCheck(acct, cust, lns) ==
    \/ acct = NoAccount
    \/ cust = ""

submitQuoteReturnsEarly(acct, cust, lns) ==
    \/ acct = NoAccount
    \/ cust = ""
    \/ Len(lns) = 0

\* QuoteSummaryCard: the Calculate button
canCalculate(props) ==
    props.customerId # "" /\ Len(props.lines) > 0 /\ ~props.disabled

CalculateDisabled(props) == ~canCalculate(props) \/ props.isCalculating

\* the Calculate button of old/App.tsx
SubmitDisabled == loadingQuote \/ account = NoAccount

Init ==
    /\ account = NoAccount
    /\ customerId = ""
    /\ includeFreight = TRUE
    /\ items = <<>>
    /\ customers = <<>>
    /\ lines = <<>>
    /\ quote = NoQuote
    /\ error = NoError
    /\ loadingQuote = FALSE
    /\ pending = NoPending
    /\ quotesHistory = <<>>
    /\ loadingHistory = FALSE
    /\ histPending = 0
    /\ itemTable = ItemCatalog
    /\ selectedQuote = NoQuote
    /\ detail = NoDetail
    /\ initPending = 0
    /\ EdIdle
    /\ EngIdle
    /\ SvcIdle
    /\ StgIdle

\* handleLogin after loginPopup resolved with an account (or the mount
\* effect finding an active account)
\* The [account] effect then starts loadInitial, which runs up to its await.
HandleLogin ==
    /\ account = NoAccount
    /\ initPending < MaxInitInFlight
    /\ account' = SignedIn
    /\ error' = NoError
    /\ initPending' = initPending + 1
    /\ UNCHANGED <<customerId, includeFreight, items, lines, quote,
                   loadingQuote, pending, customers, quotesHistory,
                   loadingHistory, histPending, itemTable, selectedQuote,
                   detail, edVars, engVars, svcVars, stgVars>>

\* handleLogout up to `await msalInstance.logoutPopup()`; what the popup
\* does afterwards only reaches authError
HandleLogout ==
    /\ account # NoAccount
    /\ account' = NoAccount
    /\ customers' = <<>>
    /\ items' = <<>>
    /\ lines' = <<>>
    /\ quote' = NoQuote
    /\ quotesHistory' = <<>>
    /\ selectedQuote' = NoQuote
    /\ error' = NoError
    /\ UNCHANGED <<customerId, includeFreight, loadingQuote, pending,
                   loadingHistory, histPending, itemTable, detail, initPending,
                   edVars, engVars, svcVars, stgVars>>

\* loadInitial after its awaits: both lists arrive together
LoadInitialResolves ==
    /\ initPending > 0
    /\ initPending' = initPending - 1
    /\ customers' = ListCustomers
    /\ items' = ListItems(itemTable)
    /\ UNCHANGED <<account, customerId, includeFreight, lines, quote, error,
                   loadingQuote, pending, quotesHistory, loadingHistory,
                   histPending, itemTable, selectedQuote, detail,
                   edVars, engVars, svcVars, stgVars>>

SetCustomerId ==
    /\ account # NoAccount
    /\ \E c \in CustomerChoices :
          /\ c = "" \/ \E i \in DOMAIN customers : customers[i].id = c
          /\ customerId' = c
    /\ UNCHANGED <<account, includeFreight, items, lines, quote, error,
                   loadingQuote, pending, customers, quotesHistory,
                   loadingHistory, histPending, itemTable, sessVars,
                   edVars, engVars, svcVars, stgVars>>

SetLines(new) ==
    /\ lines' = new
    /\ UNCHANGED <<account, customerId, includeFreight, items, quote, error,
                   loadingQuote, pending, customers, quotesHistory,
                   loadingHistory, histPending, itemTable, sessVars,
                   edVars, engVars, svcVars, stgVars>>

AddStockLine ==
    /\ account # NoAccount
    /\ Len(lines) < MaxLines
    /\ Len(items) # 0
    /\ SetLines(Append(lines, StockLine(items[1].sku)))

AddCustomLine ==
    /\ account # NoAccount
    /\ Len(lines) < MaxLines
    /\ SetLines(Append(lines, NewCustomLine))

AddAdHocLine ==
    /\ account # NoAccount
    /\ Len(lines) < MaxLines
    /\ SetLines(Append(lines, NewAdHocLine))

\* the item select of a rendered stock row (idx counts from 0)
UpdateLine ==
    \E idx \in 0..(Len(lines) - 1) :
        /\ lines[idx + 1].kind = "stock"
        /\ \E sku \in SkuChoices :
              /\ \E i \in DOMAIN items : items[i].sku = sku
              /\ SetLines(updateLine(lines, idx, [itemSku |-> sku]))

RemoveLine ==
    \E idx \in 0..(Len(lines) - 1) : SetLines(removeLine(lines, idx))

\* submitQuote without `setQuote(null)` before the request
SubmitQuote_KeepsQuote ==
    /\ ~SubmitDisabled
    /\ histPending < MaxHistoryInFlight
    /\ IF submitQuoteReturnsEarly(account, customerId, lines)
       THEN UNCHANGED <<loadingQuote, error, pending, selectedQuote>>
       ELSE /\ loadingQuote' = TRUE
            /\ error' = NoError
            /\ selectedQuote' = NoQuote
            /\ pending' =
                 LET closure == [account |-> account, lines |-> lines,
                                 customerId |-> customerId,
                                 includeFreight |-> includeFreight]
                 IN [closure |-> closure, payload |-> BuildPayload(closure)]
    /\ UNCHANGED <<account, customerId, includeFreight, items, lines, customers,
                   quotesHistory, loadingHistory, histPending, itemTable,
                   detail, initPending, quote,
                   edVars, engVars, svcVars, stgVars>>

\* submitQuote up to `await createQuote`. The button is disabled while
\* loadingQuote or signed out; the function returns early without a customer
\* or without lines.
SubmitQuote ==
    /\ ~SubmitDisabled
    /\ histPending < MaxHistoryInFlight
    /\ IF submitQuoteReturnsEarly(account, customerId, lines)
       THEN UNCHANGED <<loadingQuote, error, quote, pending, selectedQuote>>
       ELSE /\ loadingQuote' = TRUE
            /\ error' = NoError
            /\ quote' = NoQuote
            /\ selectedQuote' = NoQuote
            /\ pending' =
                 LET closure == [account |-> account, lines |-> lines,
                                 customerId |-> customerId,
                                 includeFreight |-> includeFreight]
                 IN [closure |-> closure, payload |-> BuildPayload(closure)]
    /\ UNCHANGED <<account, customerId, includeFreight, items, lines, customers,
                   quotesHistory, loadingHistory, histPending, itemTable,
                   detail, initPending,
                   edVars, engVars, svcVars, stgVars>>

\* the backend answers POST /quote from its tables as they are now, and
\* submitQuote continues after `await createQuote`
CreateQuoteResolves ==
    /\ pending # NoPending
    /\ loadingQuote' = FALSE
    /\ pending' = NoPending
    /\ LET tables == [items |-> itemTable, customers |-> CustomerRegistry]
           data   == jsonFetch(PostQuote(pending.payload, tables))
       IN IF data.ok
          THEN \* setQuote(data); loadQuotesHistoryHandler() up to its await
               /\ quote' = data.value
               /\ loadingHistory' = TRUE
               /\ error' = NoError
               /\ histPending' = histPending + 1
          ELSE /\ error' = QuoteError(data.message)
               /\ UNCHANGED <<quote, loadingHistory, histPending>>
    /\ UNCHANGED <<account, customerId, includeFreight, items, lines, customers,
                   quotesHistory, itemTable, sessVars,
                   edVars, engVars, svcVars, stgVars>>

\* the catch of submitQuote without its finally
CreateQuoteFails_NoFinally ==
    /\ pending # NoPending
    /\ error' = QuoteError(NetworkFailure)
    /\ pending' = NoPending
    /\ UNCHANGED <<account, customerId, includeFreight, items, lines, quote,
                   customers, quotesHistory, loadingHistory, histPending,
                   itemTable, sessVars, loadingQuote,
                   edVars, engVars, svcVars, stgVars>>

\* fetch itself rejects (network)
CreateQuoteFails ==
    /\ pending # NoPending
    /\ error' = QuoteError(NetworkFailure)
    /\ loadingQuote' = FALSE
    /\ pending' = NoPending
    /\ UNCHANGED <<account, customerId, includeFreight, items, lines, quote,
                   customers, quotesHistory, loadingHistory, histPending,
                   itemTable, sessVars,
                   edVars, engVars, svcVars, stgVars>>

\* loadQuotesHistoryHandler after its await
HistoryResolves ==
    /\ histPending > 0
    /\ histPending' = histPending - 1
    /\ loadingHistory' = FALSE
    /\ \/ /\ quotesHistory' = SavedSummaries
          /\ error' = error
       \/ /\ error' = HistoryError
          /\ quotesHistory' = quotesHistory
    /\ UNCHANGED <<account, customerId, includeFreight, items, lines, quote,
                   loadingQuote, pending, customers, itemTable, sessVars,
                   edVars, engVars, svcVars, stgVars>>

\* the Refresh History button
LoadQuotesHistory ==
    /\ ~loadingHistory
    /\ account # NoAccount
    /\ histPending < MaxHistoryInFlight
    /\ loadingHistory' = TRUE
    /\ error' = NoError
    /\ histPending' = histPending + 1
    /\ UNCHANGED <<account, customerId, includeFreight, items, lines, quote,
                   loadingQuote, pending, customers, quotesHistory, itemTable,
                   sessVars, edVars, engVars, svcVars, stgVars>>

\* a click on a row of the history table: loadQuoteById(q.id) up to its await
LoadQuoteById ==
    \E i \in DOMAIN quotesHistory :
        LET id == quotesHistory[i].id
        IN /\ IF account = NoAccount
              THEN /\ error' = SignInError
                   /\ UNCHANGED <<selectedQuote, detail>>
              ELSE /\ Cardinality(detail.inFlight) < MaxDetailInFlight
                   /\ id \notin detail.inFlight
                   /\ selectedQuote' = NoQuote
                   /\ error' = NoError
                   /\ detail' = [inFlight |-> detail.inFlight \cup {id},
                                 latest |-> id]
           /\ UNCHANGED <<account, customerId, includeFreight, items, lines,
                          quote, loadingQuote, pending, customers,
                          quotesHistory, loadingHistory, histPending,
                          itemTable, initPending,
                          edVars, engVars, svcVars, stgVars>>

\* loadQuoteById after `await fetchQuoteDetail`
QuoteDetailResolves ==
    \E id \in detail.inFlight :
        /\ detail' = [detail EXCEPT !.inFlight = @ \ {id}]
        /\ selectedQuote' = QuoteDetail(id)
        /\ UNCHANGED <<account, customerId, includeFreight, items, lines,
                       quote, error, loadingQuote, pending, customers,
                       quotesHistory, loadingHistory, histPending,
                       itemTable, initPending,
                       edVars, engVars, svcVars, stgVars>>

\* fetchQuoteDetail throws
QuoteDetailFails ==
    \E id \in detail.inFlight :
        /\ detail' = [detail EXCEPT !.inFlight = @ \ {id}]
        /\ error' = DetailError
        /\ UNCHANGED <<account, customerId, includeFreight, items, lines,
                       quote, loadingQuote, pending, customers,
                       quotesHistory, loadingHistory, histPending,
                       itemTable, selectedQuote, initPending,
                       edVars, engVars, svcVars, stgVars>>

\* DELETE /items/{sku} by an administrator
DeleteItem ==
    /\ \E sku \in DeletableSkus \cap DOMAIN itemTable :
          itemTable' = Without(itemTable, {sku})
    /\ UNCHANGED <<account, customerId, includeFreight, items, lines, quote,
                   error, loadingQuote, pending, customers, quotesHistory,
                   loadingHistory, histPending, sessVars,
                   edVars, engVars, svcVars, stgVars>>

Next ==
    \/ HandleLogin
    \/ LoadInitialResolves
    \/ SetCustomerId
    \/ AddStockLine
    \/ AddCustomLine
    \/ AddAdHocLine
    \/ UpdateLine
    \/ RemoveLine
    \/ SubmitQuote
    \/ CreateQuoteResolves
    \/ CreateQuoteFails
    \/ HistoryResolves
    \/ DeleteItem

Spec == Init /\ [][Next]_vars

\* The session: signing in and out, quote and history requests and their
\* responses in any order, with stock lines only.
SessionNext ==
    \/ HandleLogin
    \/ HandleLogout
    \/ LoadInitialResolves
    \/ SetCustomerId
    \/ AddStockLine
    \/ SubmitQuote
    \/ CreateQuoteResolves
    \/ CreateQuoteFails
    \/ LoadQuotesHistory
    \/ HistoryResolves
    \/ LoadQuoteById
    \/ QuoteDetailResolves
    \/ QuoteDetailFails

SpecSession == Init /\ [][SessionNext]_vars

\* Every promise of createQuote settles: the response arrives or fetch
\* rejects, and the continuation of submitQuote runs.
SpecSessionLive ==
    SpecSession /\ WF_vars(CreateQuoteFails \/ CreateQuoteResolves)

(***************************************************************************)
(* SpecService: the backend serving POST /quote from several workers while *)
(* administrators change the reference tables (PATCH and DELETE of         *)
(* customers and items).  A computation copies the tables when it begins   *)
(* and then runs the engine's stages one step at a time on that copy.      *)
(***************************************************************************)
MaxServed == 3

ServiceRequests ==
    { [customer_id |-> "CUST-A", include_freight |-> TRUE,
       lines |-> <<StockReq("KR-4896", 1), StockReq("KR-4848", 2)>>],
      [customer_id |-> "CUST-B", include_freight |-> FALSE,
       lines |-> <<AdHocReq(5, 3)>>] }

\* what the administrative forms send
ItemCostEdits      == [sku : {"KR-4848"}, avg_cost : {12}]
CustomerOffsetEdits == [id : {"CUST-A"}, freight_column_offset : {0}]

\* every state the tables can be in
ItemVersions ==
    { ItemCatalog, Without(ItemCatalog, DeletableSkus) }
      \cup { [ItemCatalog EXCEPT ![e.sku] = Merge(@, [avg_cost |-> e.avg_cost])] :
                e \in ItemCostEdits }

CustomerVersions ==
    { CustomerRegistry, Without(CustomerRegistry, {"CUST-A"}) }
      \cup { [CustomerRegistry EXCEPT ![e.id] =
                 Merge(@, [freight_column_offset |-> e.freight_column_offset])] :
                e \in CustomerOffsetEdits }

TableVersions == [items : ItemVersions, customers : CustomerVersions]

\* the tables a computation reads
JobTables_Live(job) == svcTables

JobTables(job) == job.snapshot

\* a read of a row that is not there fails the computation
InternalError == [status |-> "InternalError"]

Readable(job) ==
    LET tables == JobTables(job) IN
    /\ job.req.customer_id \in DOMAIN tables.customers
    /\ \A i \in DOMAIN job.req.lines :
          job.req.lines[i].type = "stock" =>
              job.req.lines[i].sku \in DOMAIN tables.items

\* the last stage: order minimum and response
FinishJob_SharedCounter(job) ==
    LET result == ApplyOrderMinimums(job.priced, job.req, JobTables(job)) IN
    [result EXCEPT !.response.quote_total = @ + svcServed]

FinishJob(job) == ApplyOrderMinimums(job.priced, job.req, JobTables(job))

ActiveWorkers == {w \in Workers : svcJobs[w].phase # "idle"}

SvcInit ==
    /\ svcTables = FullTables
    /\ svcJobs = [w \in Workers |-> IdleJob]
    /\ svcKept = NoKept
    /\ svcServed = 0
    /\ EdIdle
    /\ EngIdle
    /\ AppIdle
    /\ StgIdle

SetJob(w, job) ==
    /\ svcJobs' = [svcJobs EXCEPT ![w] = job]
    /\ UNCHANGED <<svcTables, svcKept, svcServed, edVars, engVars, appVars, stgVars>>

SetTables(tables) ==
    /\ svcTables' = tables
    /\ UNCHANGED <<svcJobs, svcKept, svcServed, edVars, engVars, appVars, stgVars>>

\* a request arrives at a free worker
SvcBegin ==
    \E w \in Workers, req \in ServiceRequests :
        /\ svcJobs[w].phase = "idle"
        /\ svcServed + Cardinality(ActiveWorkers) < MaxServed
        /\ SetJob(w, [phase |-> "validate", req |-> req, snapshot |-> svcTables,
                      priced |-> <<>>, result |-> NoResult])

SvcValidate ==
    \E w \in Workers :
        LET job    == svcJobs[w]
            errors == ValidateRequest(job.req, JobTables(job))
        IN /\ job.phase = "validate"
           /\ IF Len(errors) > 0
              THEN SetJob(w, [job EXCEPT !.phase = "done",
                                         !.result = ValidationFailure(errors)])
              ELSE SetJob(w, [job EXCEPT !.phase = "price"])

\* prices the next line of the request
SvcPriceLine ==
    \E w \in Workers :
        LET job  == svcJobs[w]
            next == Len(job.priced) + 1
        IN /\ job.phase = "price"
           /\ next <= Len(job.req.lines)
           /\ IF ~Readable(job)
              THEN SetJob(w, [job EXCEPT !.phase = "done", !.result = InternalError])
              ELSE SetJob(w, [job EXCEPT !.priced =
                        Append(@, PriceLine(job.req.lines[next], job.req,
                                            JobTables(job)))])

SvcFinish ==
    \E w \in Workers :
        LET job == svcJobs[w] IN
        /\ job.phase = "price"
        /\ Len(job.priced) = Len(job.req.lines)
        /\ IF ~Readable(job)
           THEN SetJob(w, [job EXCEPT !.phase = "done", !.result = InternalError])
           ELSE SetJob(w, [job EXCEPT !.phase = "done", !.result = FinishJob(job)])

\* the response is handed back and the worker is free again
SvcRespond ==
    \E w \in Workers :
        /\ svcJobs[w].phase = "done"
        /\ svcJobs' = [svcJobs EXCEPT ![w] = IdleJob]
        /\ svcServed' = svcServed + 1
        /\ \/ svcKept' = svcKept
           \/ /\ svcKept = NoKept
              /\ svcKept' = [tag |-> "kept", req |-> svcJobs[w].req,
                             snapshot |-> svcJobs[w].snapshot,
                             result |-> svcJobs[w].result]
        /\ UNCHANGED <<svcTables, edVars, engVars, appVars, stgVars>>

\* PATCH /items/{sku}
SvcUpdateItem ==
    \E e \in ItemCostEdits :
        /\ e.sku \in DOMAIN svcTables.items
        /\ SetTables([svcTables EXCEPT !.items[e.sku] =
                          Merge(@, [avg_cost |-> e.avg_cost])])

\* DELETE /items/{sku}
SvcDeleteItem ==
    \E sku \in DeletableSkus \cap DOMAIN svcTables.items :
        SetTables([svcTables EXCEPT !.items = Without(@, {sku})])

\* PATCH /customers/{id}
SvcUpdateCustomer ==
    \E e \in CustomerOffsetEdits :
        /\ e.id \in DOMAIN svcTables.customers
        /\ SetTables([svcTables EXCEPT !.customers[e.id] =
                Merge(@, [freight_column_offset |-> e.freight_column_offset])])

\* DELETE /customers/{id}
SvcDeleteCustomer ==
    \E id \in {"CUST-A"} \cap DOMAIN svcTables.customers :
        SetTables([svcTables EXCEPT !.customers = Without(@, {id})])

SvcNext ==
    \/ SvcBegin
    \/ SvcValidate
    \/ SvcPriceLine
    \/ SvcFinish
    \/ SvcRespond
    \/ SvcUpdateItem
    \/ SvcDeleteItem
    \/ SvcUpdateCustomer
    \/ SvcDeleteCustomer

SpecService == SvcInit /\ [][SvcNext]_vars


(***************************************************************************)
(* SpecSettings: the Settings dialog (components/Settings.tsx 18-466),     *)
(* open, with empty search boxes.  customers and items are the lists the   *)
(* dialog receives as props: the dialog never changes them, and they are   *)
(* held as given, since no component of the repository mounts the dialog.  *)
(* A callback prop the dialog invokes is recorded in lastCall.             *)
(* Not modelled: isOpen/onClose and the two search boxes.                  *)
(***************************************************************************)
\* a key that is both a customer id and an item sku
SharedKey == "1001"

SettingsCustomers ==
    <<CustomerRegistry["CUST-A"], [id |-> SharedKey, name |-> "Counter sales"]>>

SettingsItems ==
    <<[sku |-> "KR-4848", description |-> "Styrene 48x48", avg_cost |-> 10],
      [sku |-> SharedKey, description |-> ""]>>

\* String(n) for the integers the tables and the inputs hold
DecimalStrings == <<"0", "1", "2", "3", "4", "5", "6", "7", "8", "9", "10", "11", "12">>
String(n) == DecimalStrings[n + 1]

\* parseInt(s) / parseFloat(s): the number s spells, NaN otherwise
NaN == 0 - 1
parseInt(s) ==
    IF \E n \in DOMAIN DecimalStrings : DecimalStrings[n] = s
    THEN (CHOOSE n \in DOMAIN DecimalStrings : DecimalStrings[n] = s) - 1
    ELSE NaN
parseFloat(s) == parseInt(s)

\* the field of an object that may lack it, as a one-field or empty object:
\* an undefined value is a key left out
Defined(ev, f) == IF f \in DOMAIN ev THEN [g \in {f} |-> ev[f]] ELSE EmptyValues

\* handleEditCustomer's setEditValues argument
CustomerEditValues(customer) ==
    [column_break |-> Get(customer, "column_break", ""),
     freight_column_offset |-> String(Get(customer, "freight_column_offset", 0))]

\* handleSaveCustomer's updates: parseInt(...) || 0 of a missing or
\* non-numeric input is 0
CustomerUpdates(ev) ==
    LET parsed == IF "freight_column_offset" \in DOMAIN ev
                  THEN parseInt(ev.freight_column_offset) ELSE NaN
    IN Merge(Defined(ev, "column_break"),
             [freight_column_offset |-> IF parsed = NaN THEN 0 ELSE parsed])

\* handleEditItem's setEditValues argument: String(item.avg_cost ?? "")
ItemEditValues(item) ==
    [description |-> item.description,
     avg_cost    |-> IF "avg_cost" \in DOMAIN item THEN String(item.avg_cost) ELSE ""]

\* handleSaveItem's updates: avg_cost is undefined for an empty input
ItemUpdates(ev) ==
    Merge(Defined(ev, "description"),
          IF "avg_cost" \in DOMAIN ev /\ ev.avg_cost # ""
          THEN [avg_cost |-> parseFloat(ev.avg_cost)]
          ELSE EmptyValues)

TypedColumnBreaks == {"VN9", ""}
TypedOffsets      == {"3", ""}
TypedDescriptions == {"Sheet"}
TypedCosts        == {"12", ""}

pageVars == <<account, customerId, includeFreight, lines, quote, error,
              loadingQuote, pending, quotesHistory, loadingHistory,
              histPending, itemTable, sessVars>>

StgInit ==
    /\ StgIdle
    /\ customers = SettingsCustomers
    /\ items = SettingsItems
    /\ account = NoAccount
    /\ customerId = ""
    /\ includeFreight = TRUE
    /\ lines = <<>>
    /\ quote = NoQuote
    /\ error = NoError
    /\ loadingQuote = FALSE
    /\ pending = NoPending
    /\ quotesHistory = <<>>
    /\ loadingHistory = FALSE
    /\ histPending = 0
    /\ itemTable = ItemCatalog
    /\ selectedQuote = NoQuote
    /\ detail = NoDetail
    /\ initPending = 0
    /\ EdIdle
    /\ EngIdle
    /\ SvcIdle

StgOthersUnchanged == UNCHANGED <<pageVars, edVars, engVars, svcVars>>

SetActiveTab ==
    /\ \E tab \in {"customers", "items"} : activeTab' = tab
    /\ lastCall' = NoCall
    /\ UNCHANGED <<editingCustomer, editingItem, editValues, confirmDelete,
                   lastDeleteClick, customers, items>>
    /\ StgOthersUnchanged

\* Edit on a customer row that is not in edit mode
HandleEditCustomer ==
    /\ activeTab = "customers"
    /\ \E i \in DOMAIN customers :
          /\ editingCustomer # customers[i].id
          /\ editingCustomer' = customers[i].id
          /\ editValues' = CustomerEditValues(customers[i])
    /\ lastCall' = NoCall
    /\ UNCHANGED <<activeTab, editingItem, confirmDelete, lastDeleteClick,
                   customers, items>>
    /\ StgOthersUnchanged

\* onChange of the two inputs of the customer row in edit mode
TypeCustomerField ==
    /\ activeTab = "customers"
    /\ \E i \in DOMAIN customers : editingCustomer = customers[i].id
    /\ \/ \E v \in TypedColumnBreaks :
             editValues' = Merge(editValues, [column_break |-> v])
       \/ \E v \in TypedOffsets :
             editValues' = Merge(editValues, [freight_column_offset |-> v])
    /\ lastCall' = NoCall
    /\ UNCHANGED <<activeTab, editingCustomer, editingItem, confirmDelete,
                   lastDeleteClick, customers, items>>
    /\ StgOthersUnchanged

\* Save on the customer row in edit mode
HandleSaveCustomer ==
    /\ activeTab = "customers"
    /\ \E i \in DOMAIN customers :
          /\ editingCustomer = customers[i].id
          /\ lastCall' = [fn |-> "onUpdateCustomer", key |-> customers[i].id,
                          updates |-> CustomerUpdates(editValues)]
    /\ editingCustomer' = Null
    /\ editValues' = EmptyValues
    /\ UNCHANGED <<activeTab, editingItem, confirmDelete, lastDeleteClick,
                   customers, items>>
    /\ StgOthersUnchanged

\* Cancel on the customer row in edit mode: setEditingCustomer(null)
CancelEditCustomer ==
    /\ activeTab = "customers"
    /\ \E i \in DOMAIN customers : editingCustomer = customers[i].id
    /\ editingCustomer' = Null
    /\ lastCall' = NoCall
    /\ UNCHANGED <<activeTab, editingItem, editValues, confirmDelete,
                   lastDeleteClick, customers, items>>
    /\ StgOthersUnchanged

HandleEditItem ==
    /\ activeTab = "items"
    /\ \E i \in DOMAIN items :
          /\ editingItem # items[i].sku
          /\ editingItem' = items[i].sku
          /\ editValues' = ItemEditValues(items[i])
    /\ lastCall' = NoCall
    /\ UNCHANGED <<activeTab, editingCustomer, confirmDelete, lastDeleteClick,
                   customers, items>>
    /\ StgOthersUnchanged

TypeItemField ==
    /\ activeTab = "items"
    /\ \E i \in DOMAIN items : editingItem = items[i].sku
    /\ \/ \E v \in TypedDescriptions :
             editValues' = Merge(editValues, [description |-> v])
       \/ \E v \in TypedCosts :
             editValues' = Merge(editValues, [avg_cost |-> v])
    /\ lastCall' = NoCall
    /\ UNCHANGED <<activeTab, editingCustomer, editingItem, confirmDelete,
                   lastDeleteClick, customers, items>>
    /\ StgOthersUnchanged

HandleSaveItem ==
    /\ activeTab = "items"
    /\ \E i \in DOMAIN items :
          /\ editingItem = items[i].sku
          /\ lastCall' = [fn |-> "onUpdateItem", key |-> items[i].sku,
                          updates |-> ItemUpdates(editValues)]
    /\ editingItem' = Null
    /\ editValues' = EmptyValues
    /\ UNCHANGED <<activeTab, editingCustomer, confirmDelete, lastDeleteClick,
                   customers, items>>
    /\ StgOthersUnchanged

CancelEditItem ==
    /\ activeTab = "items"
    /\ \E i \in DOMAIN items : editingItem = items[i].sku
    /\ editingItem' = Null
    /\ lastCall' = NoCall
    /\ UNCHANGED <<activeTab, editingCustomer, editValues, confirmDelete,
                   lastDeleteClick, customers, items>>
    /\ StgOthersUnchanged

\* Delete on a customer row that is not in edit mode
HandleDeleteCustomer ==
    /\ activeTab = "customers"
    /\ \E i \in DOMAIN customers :
          LET id == customers[i].id IN
          /\ editingCustomer # id
          /\ lastDeleteClick' = [kind |-> "customer", key |-> id]
          /\ IF confirmDelete = id
             THEN /\ lastCall' = [fn |-> "onDeleteCustomer", key |-> id,
                                  updates |-> EmptyValues]
                  /\ confirmDelete' = Null
             ELSE /\ confirmDelete' = id
                  /\ lastCall' = NoCall
    /\ UNCHANGED <<activeTab, editingCustomer, editingItem, editValues,
                   customers, items>>
    /\ StgOthersUnchanged

HandleDeleteItem ==
    /\ activeTab = "items"
    /\ \E i \in DOMAIN items :
          LET sku == items[i].sku IN
          /\ editingItem # sku
          /\ lastDeleteClick' = [kind |-> "item", key |-> sku]
          /\ IF confirmDelete = sku
             THEN /\ lastCall' = [fn |-> "onDeleteItem", key |-> sku,
                                  updates |-> EmptyValues]
                  /\ confirmDelete' = Null
             ELSE /\ confirmDelete' = sku
                  /\ lastCall' = NoCall
    /\ UNCHANGED <<activeTab, editingCustomer, editingItem, editValues,
                   customers, items>>
    /\ StgOthersUnchanged

StgNext ==
    \/ SetActiveTab
    \/ HandleEditCustomer
    \/ TypeCustomerField
    \/ HandleSaveCustomer
    \/ CancelEditCustomer
    \/ HandleEditItem
    \/ TypeItemField
    \/ HandleSaveItem
    \/ CancelEditItem
    \/ HandleDeleteCustomer
    \/ HandleDeleteItem

SpecSettings == StgInit /\ [][StgNext]_vars


(***************************************************************************)
(* Order-value minimum (C1 - C4), checked under SpecEngine                 *)
(***************************************************************************)
EngDone == engPhase = "done"

\* the lines of the priced request that carry nominal dimensions
DimensionedLines ==
    {i \in 1..Len(engReq.lines) : HasNominalDims(engReq.lines[i], engTables)}

LineDims(i) == NominalDims(engReq.lines[i], engTables)

SomeLineIsLarge ==
    \E i \in DimensionedLines :
        LET w == LineDims(i).width
            l == LineDims(i).length
        IN (IF w <= l THEN w ELSE l) >= 40 /\ (IF w >= l THEN w ELSE l) >= 72

OnlyLineIs(w, l) ==
    /\ Len(engReq.lines) = 1
    /\ engReq.lines[1].type = "custom"
    /\ engReq.lines[1].width = w
    /\ engReq.lines[1].length = l

C2_TotalIsSumPlusOneTopUp ==
    EngDone =>
        LET natural == SumExtended(engResult.response.lines)
            floor   == IF SomeLineIsLarge THEN 550 ELSE 150
            delta   == engResult.response.quote_total - natural
        IN /\ delta >= 0
           /\ natural < floor => delta <= floor - natural
           /\ natural >= floor => delta = 0
           /\ delta = engResult.minimum_top_up

\* two lines were priced and their natural total already met the floor
C2_Witness ==
    /\ EngDone
    /\ Len(engReq.lines) = 2
    /\ SumExtended(engResult.response.lines) >= 550
    /\ SomeLineIsLarge
    /\ engResult.response.quote_total = SumExtended(engResult.response.lines)

\* C3: when the natural total is below the applicable floor the top-up is
\* exactly floor - natural total, so quote_total is the floor; no priced quote
\* has quote_total below its floor.
C3_TopUpReachesFloor ==
    EngDone =>
        LET natural == SumExtended(engPriced)
            floor   == IF SomeLineIsLarge THEN 550 ELSE 150
        IN /\ natural < floor =>
                /\ engResult.minimum_top_up = floor - natural
                /\ engResult.response.quote_total = floor
           /\ engResult.response.quote_total >= floor

\* a large-sheet quote with a small natural total was raised to $550
C3_Witness ==
    /\ EngDone
    /\ SomeLineIsLarge
    /\ SumExtended(engPriced) < 550
    /\ engResult.response.quote_total = 550

\* C4: the top-up leaves every LinePriceResult as the pricing phase built it
\* (sell_price_per_unit, extended_sell_price, quantity, total_column), so the
\* natural total is still the sum over the lines of the response.
C4_TopUpLeavesLinesUnchanged ==
    EngDone =>
        /\ Len(engResult.response.lines) = Len(engPriced)
        /\ \A i \in 1..Len(engPriced) :
              LET before == engPriced[i]
                  after  == engResult.response.lines[i]
              IN /\ after.sell_price_per_unit = before.sell_price_per_unit
                 /\ after.extended_sell_price = before.extended_sell_price
                 /\ after.quantity = before.quantity
                 /\ after.total_column = before.total_column
        /\ SumExtended(engResult.response.lines) = engResult.natural_total

\* a top-up was applied to a two-line quote
C4_Witness ==
    /\ EngDone
    /\ Len(engPriced) = 2
    /\ engResult.minimum_top_up > 0


(***************************************************************************)
(* Claims about the application (Spec)                                     *)
(***************************************************************************)

\* the backend line a UI line stands for, field by field
SameLine(ui, be) ==
    /\ be.type = ui.kind
    /\ IF ui.kind = "stock" THEN be.sku = ui.itemSku /\ be.quantity = ui.quantity
       ELSE IF ui.kind = "custom"
       THEN /\ be.material = ui.material
            /\ be.gauge = ui.gauge /\ be.width = ui.width /\ be.length = ui.length
            /\ be.sheets = ui.sheets
       ELSE /\ be.landed_cost_per_unit = ui.landedCostPerUnit
            /\ be.weight_per_unit = ui.weightPerUnit
            /\ be.quantity = ui.quantity

\* the priced line that answers a backend line
AnswersLine(be, out) ==
    /\ out.type = be.type
    /\ be.type = "stock" => out.sku = be.sku
    /\ out.quantity = be.quantity

\* C5: the request sent by submitQuote has exactly one backend line per UI
\* line of the render that was clicked, in the same order, and a successful
\* response has one priced line per request line, in the request's order.
C5_LineOrderPreserved ==
    [][ /\ pending' # NoPending =>
             /\ Len(pending'.payload.lines) = Len(pending'.closure.lines)
             /\ \A i \in 1..Len(pending'.closure.lines) :
                   SameLine(pending'.closure.lines[i], pending'.payload.lines[i])
        /\ (pending # NoPending /\ quote' # NoQuote) =>
             /\ Len(quote'.lines) = Len(pending.payload.lines)
             /\ \A i \in 1..Len(pending.payload.lines) :
                   AnswersLine(pending.payload.lines[i], quote'.lines[i])
      ]_vars

\* a quote came back for a request whose two lines differ in kind, the
\* stock line second
C5_Witness ==
    /\ quote # NoQuote
    /\ Len(quote.lines) = 2
    /\ quote.lines[1].type = "ad_hoc"
    /\ quote.lines[2].type = "stock"
    /\ quote.lines[2].sku = "KR-4848"

\* the request in flight names a SKU the backend's item table lacks
UnknownSkuInFlight(i) ==
    /\ pending # NoPending
    /\ i \in 1..Len(pending.payload.lines)
    /\ pending.payload.lines[i].type = "stock"
    /\ pending.payload.lines[i].sku \notin DOMAIN itemTable

\* C6: a request with a stock line whose SKU is not in the item table (never
\* there, or deleted since the item list was loaded) fails as a whole: no
\* quote is set, and the error carries UnknownSku for that line.
C6_UnknownSkuFailsQuote ==
    [][ \A i \in 1..MaxLines :
          (UnknownSkuInFlight(i) /\ pending' = NoPending) =>
              /\ quote' = NoQuote
              /\ error' # NoError
              /\ \/ error'.detail = NetworkFailure
                 \/ \E k \in 1..Len(error'.detail.text.errors) :
                       /\ error'.detail.text.errors[k].index = i
                       /\ error'.detail.text.errors[k].error =
                              UnknownSku(pending.payload.lines[i].sku)
      ]_vars

\* the quote for a SKU still in the application's item list, deleted at the
\* backend, was refused with UnknownSku and no quote is shown
C6_Witness ==
    /\ "KR-4848" \notin DOMAIN itemTable
    /\ \E i \in DOMAIN items : items[i].sku = "KR-4848"
    /\ \E i \in DOMAIN lines : lines[i].kind = "stock" /\ lines[i].itemSku = "KR-4848"
    /\ quote = NoQuote
    /\ error # NoError
    /\ error.detail.status = 400
    /\ \E k \in 1..Len(error.detail.text.errors) :
          error.detail.text.errors[k].error = UnknownSku("KR-4848")


(***************************************************************************)
(* Claims about the custom line editor (SpecEditor)                        *)
(***************************************************************************)
EdRange == MATERIAL_CONSTRAINTS[edLine.material]

Within(v, range) == range.min <= v /\ v <= range.max

\* the editor's verdict on a value: valid exactly inside the range, and
\* otherwise the message of the bound it is outside of
VerdictMatches(validation, v, range) ==
    /\ validation.isValid <=> Within(v, range)
    /\ v < range.min => validation.message = <<"Min", range.min>>
    /\ v > range.max => validation.message = <<"Max", range.max>>

\* C7: gauge, width and length are accepted exactly when
\* min <= value <= max for the line's material, both ends included; a line
\* with a value outside is refused by the validator with
\* OutOfRange(field, min, max) for the field that is outside.
C7_BoundsAreInclusive ==
    LET refusal == ValidateLine(ToBackendLine(edLine), FullTables) IN
    /\ VerdictMatches(edRender.gaugeValidation, edLine.gauge, EdRange.gauge)
    /\ VerdictMatches(edRender.widthValidation, edLine.width, EdRange.width)
    /\ VerdictMatches(edRender.lengthValidation, edLine.length, EdRange.length)
    /\ edRender.hasErrors <=> refusal.type = "OutOfRange"
    /\ ~Within(edLine.gauge, EdRange.gauge) =>
           refusal = [type |-> "OutOfRange", field |-> "gauge",
                      min |-> EdRange.gauge.min, max |-> EdRange.gauge.max]
    /\ (Within(edLine.gauge, EdRange.gauge) /\ ~Within(edLine.width, EdRange.width)) =>
           refusal = [type |-> "OutOfRange", field |-> "width",
                      min |-> EdRange.width.min, max |-> EdRange.width.max]

\* a Vinyl line whose gauge sits on the upper bound (accepted) and whose
\* width is one inch past its upper bound (refused)
C7_Witness ==
    /\ edLine.material = "Vinyl"
    /\ edLine.gauge = Mil(30)
    /\ edRender.gaugeValidation.isValid
    /\ edLine.width = 51
    /\ ~edRender.widthValidation.isValid

\* C8: validation precedes the weight computation: no weight is computed
\* for a line that fails validation.
C8_NoWeightForInvalidLine ==
    edRender.weightComputed => ~edRender.hasErrors

\* C9: weightPerSheet = weightFactor(material) * gauge * width * length and
\* totalWeight = weightPerSheet * sheets, exactly (no rounding), for the
\* line as it is now.
C9_WeightFormula ==
    LET factor == MATERIAL_CONSTRAINTS[edLine.material].weightFactor
        perSheet == factor * edLine.gauge * edLine.width * edLine.length
    IN /\ edRender.weightInfo.weightPerSheet = perSheet
       /\ edRender.weightInfo.totalWeight = perSheet * edLine.sheets

\* a Styrene line (factor 0.04) edited away from the defaults:
\* 0.04 * 0.030 * 40 * 100 = 4.8 lb per sheet, 240 lb for 50 sheets
C9_Witness ==
    /\ edLine.material = "Styrene"
    /\ edLine.gauge = Mil(30) /\ edLine.width = 40 /\ edLine.length = 100
    /\ edLine.sheets = 50
    /\ edRender.weightInfo.weightPerSheet = 48 * (WeightScale \div 10)
    /\ edRender.weightInfo.totalWeight = 240 * WeightScale

\* C10: the line is an under-run exactly when its total weight is below
\* 2,000 lb; exactly 2,000 lb meets the minimum.
C10_UnderRunBelowMinimum ==
    LET total == MATERIAL_CONSTRAINTS[edLine.material].weightFactor
                   * edLine.gauge * edLine.width * edLine.length * edLine.sheets
    IN (~edRender.weightInfo.meetsMinimum) <=> (total < 2000 * WeightScale)

\* 0.04 * 0.250 * 40 * 100 * 50 sheets = 2,000 lb exactly, and it meets
C10_Witness ==
    /\ edLine.material = "Styrene"
    /\ edLine.gauge = Mil(250) /\ edLine.width = 40 /\ edLine.length = 100
    /\ edLine.sheets = 50
    /\ edRender.weightInfo.totalWeight = 2000 * WeightScale
    /\ edRender.weightInfo.meetsMinimum

(***************************************************************************)
(* Further claims about the custom line editor (SpecEditor)                *)
(***************************************************************************)

\* C11: for an under-run line with weightPerSheet > 0, the sheet count
\* reported as needed is ceil(2000 / weightPerSheet), the least count whose
\* run weight reaches 2,000 lb.
C11_SheetsNeededReachesFloor ==
    LET info == edRender.weightInfo IN
    (~info.meetsMinimum /\ info.weightPerSheet > 0) =>
        /\ info.sheetsNeeded = CeilDiv(2000 * WeightScale, info.weightPerSheet)
        /\ info.sheetsNeeded * info.weightPerSheet >= 2000 * WeightScale
        /\ (info.sheetsNeeded - 1) * info.weightPerSheet < 2000 * WeightScale

(***************************************************************************)
(* Rendering of a quote result (App.tsx, renderQuoteResult): each response *)
(* line becomes a table row, every cell read through a chain of `??`.      *)
(***************************************************************************)

\* a ?? b ?? ... over the fields of a response line; absent when none is there
Coalesce(line, fields) ==
    LET present == {i \in DOMAIN fields : fields[i] \in DOMAIN line} IN
    IF present = {} THEN [present |-> FALSE, value |-> 0]
    ELSE LET first == CHOOSE i \in present : \A j \in present : i <= j
         IN [present |-> TRUE, value |-> line[fields[first]]]

QuoteRow_ExtendedIsUnitPrice(line) ==
    LET qty         == Coalesce(line, <<"quantity", "qty">>)
        sellPerUnit == Coalesce(line, <<"sell_price_per_unit", "price_per_unit",
                                        "unit_price">>)
        given       == Coalesce(line, <<"extended_price", "line_total">>)
    IN [qty         |-> qty,
        sellPerUnit |-> sellPerUnit,
        extended    |-> IF given.present THEN given ELSE sellPerUnit]

QuoteRow(line) ==
    LET qty         == Coalesce(line, <<"quantity", "qty">>)
        sellPerUnit == Coalesce(line, <<"sell_price_per_unit", "price_per_unit",
                                        "unit_price">>)
        given       == Coalesce(line, <<"extended_price", "line_total">>)
    IN [qty         |-> qty,
        sellPerUnit |-> sellPerUnit,
        extended    |-> IF given.present THEN given
                        ELSE IF qty.present /\ sellPerUnit.present
                        THEN [present |-> TRUE, value |-> qty.value * sellPerUnit.value]
                        ELSE [present |-> FALSE, value |-> 0]]


(***************************************************************************)
(* Further claims about the pricing engine (SpecEngine)                    *)
(***************************************************************************)

\* C12: in every quote, with or without a minimum adjustment, each line's
\* extended_sell_price is its sell_price_per_unit times its quantity, and
\* that is the Extended amount the result table shows for the line.
C12_ExtendedIsSellTimesQuantity ==
    EngDone =>
        \A i \in 1..Len(engResult.response.lines) :
            LET line == engResult.response.lines[i]
                row  == QuoteRow(line)
            IN /\ line.extended_sell_price = line.sell_price_per_unit * line.quantity
               /\ row.extended.present
               /\ row.extended.value = line.extended_sell_price

\* a quote that got a top-up, with a line of more than one unit
C12_Witness ==
    /\ EngDone
    /\ engResult.minimum_top_up > 0
    /\ \E i \in 1..Len(engResult.response.lines) :
          /\ engResult.response.lines[i].quantity > 1
          /\ engResult.response.lines[i].extended_sell_price > 0

\* App.tsx: the totals pre-computed when a quote exists
RECURSIVE SumCost(_)
SumCost(quoteLines) ==
    IF Len(quoteLines) = 0 THEN 0
    ELSE quoteLines[1].base_cost_per_unit * quoteLines[1].quantity
            + SumCost(Tail(quoteLines))

RECURSIVE SumUnitCost(_)
SumUnitCost(quoteLines) ==
    IF Len(quoteLines) = 0 THEN 0
    ELSE quoteLines[1].base_cost_per_unit + SumUnitCost(Tail(quoteLines))

QuoteTotals_CostIgnoresQuantity(q) ==
    LET totalSell == q.quote_total
        totalCost == SumUnitCost(q.lines)
    IN [totalSell |-> totalSell, totalCost |-> totalCost,
        totalMargin |-> totalSell - totalCost]

QuoteTotals(q) ==
    LET totalSell == q.quote_total
        totalCost == SumCost(q.lines)
    IN [totalSell |-> totalSell, totalCost |-> totalCost,
        totalMargin |-> totalSell - totalCost]

\* sum over the lines of extended_sell_price - base_cost_per_unit * quantity
RECURSIVE LineMargins(_)
LineMargins(quoteLines) ==
    IF Len(quoteLines) = 0 THEN 0
    ELSE quoteLines[1].extended_sell_price
            - quoteLines[1].base_cost_per_unit * quoteLines[1].quantity
            + LineMargins(Tail(quoteLines))

DoneJobs == {w \in Workers : svcJobs[w].phase = "done"}

SameInputs(a, b) == a.req = b.req /\ a.snapshot = b.snapshot

C15_QuoteSeesOneSnapshot ==
    \A w \in DoneJobs :
        /\ \E tables \in TableVersions :
              svcJobs[w].result = ComputeQuote(svcJobs[w].req, tables)
        /\ svcJobs[w].result = ComputeQuote(svcJobs[w].req, svcJobs[w].snapshot)

\* a two-line quote finished although both the item and the customer it
\* reads were changed after it began, while the other worker is computing
C15_Witness ==
    \E w \in DoneJobs :
        /\ svcJobs[w].result.status = "ok"
        /\ Len(svcJobs[w].req.lines) = 2
        /\ svcJobs[w].snapshot.items # svcTables.items
        /\ svcJobs[w].snapshot.customers # svcTables.customers
        /\ \E v \in Workers \ {w} : svcJobs[v].phase = "price"

(***************************************************************************)
(* Constraint lookup and freight column (SpecEngine)                       *)
(***************************************************************************)
EngValidated == engPhase # "validate"

UnknownMaterialLines ==
    {i \in 1..Len(engReq.lines) :
        /\ engReq.lines[i].type = "custom"
        /\ engReq.lines[i].material \notin {"Vinyl", "Styrene", "APET"}}

\* C16: the constraint lookup is total: for a material that is not in the
\* table, getConstraints (and the engine's constraintsFor) returns the
\* default entry, Vinyl's ranges and weight factor.
C16_UnknownMaterialGetsVinylEntry ==
    EngValidated =>
        \A i \in UnknownMaterialLines :
            /\ getConstraints(engReq.lines[i].material) = MATERIAL_CONSTRAINTS.Vinyl
            /\ constraintsFor(engReq.lines[i].material) = MATERIAL_CONSTRAINTS.Vinyl

\* the same request with the freight flag turned over
OtherFreight == [engReq EXCEPT !.include_freight = ~@]

\* the freight offsets of the customer table
OffsetOf(customer) == IF customer = "CUST-A" THEN 2 ELSE 0

\* C17: for the same line and customer, total_column without freight is the
\* unshifted column, and with freight it is that column plus exactly the
\* customer's freight_column_offset; a customer without an offset gets the
\* same column either way.
C17_FreightShiftsColumnByOffset ==
    EngDone =>
        \A i \in 1..Len(engReq.lines) :
            LET column  == engResult.response.lines[i].total_column
                flipped == PriceLine(engReq.lines[i], OtherFreight, engTables).total_column
                plain   == IF engReq.include_freight THEN flipped ELSE column
                shifted == IF engReq.include_freight THEN column ELSE flipped
            IN /\ plain = BaseColumn(engReq.lines[i], engTables)
               /\ shifted = plain + OffsetOf(engReq.customer_id)

\* a stock line of base column 2 quoted with freight for the customer whose
\* offset is 2: column 4
C17_Witness ==
    /\ EngDone
    /\ engReq.customer_id = "CUST-A"
    /\ engReq.include_freight
    /\ \E i \in 1..Len(engReq.lines) :
          /\ engReq.lines[i].type = "stock"
          /\ engReq.lines[i].sku = "KR-4896"
          /\ engResult.response.lines[i].total_column = 4

(***************************************************************************)
(* Further claims about the application (Spec)                             *)
(***************************************************************************)

\* C18: in every request built by submitQuote, a custom line's quantity
\* equals its sheets field, and both are the UI line's sheet count.
C18_CustomQuantityIsSheets ==
    pending # NoPending =>
        \A i \in 1..Len(pending.payload.lines) :
            pending.payload.lines[i].type = "custom" =>
                /\ pending.payload.lines[i].quantity = pending.payload.lines[i].sheets
                /\ pending.payload.lines[i].sheets = pending.closure.lines[i].sheets
                /\ PricingQuantity(pending.payload.lines[i])
                      = pending.closure.lines[i].sheets

\* a request in flight whose second line is a custom line of 100 sheets
C18_Witness ==
    /\ pending # NoPending
    /\ Len(pending.payload.lines) = 2
    /\ pending.payload.lines[2].type = "custom"
    /\ pending.payload.lines[2].quantity = 100
    /\ pending.closure.lines[2].sheets = 100

\* the props the page hands to QuoteSummaryCard
CardProps(disabledProp) ==
    [lines |-> lines, customerId |-> customerId, includeFreight |-> includeFreight,
     isCalculating |-> loadingQuote, disabled |-> disabledProp]

RequestIssued == pending = NoPending /\ pending' # NoPending

\* C19: no POST /quote is issued while nobody is signed in, no customer is
\* selected or the line list is empty (submitQuote returns first), and the
\* Calculate button of the summary card is disabled whenever customerId is
\* empty, there are no lines, or a calculation is in progress.
C19_NoRequestWithoutAccountCustomerLines ==
    [][ /\ RequestIssued =>
             /\ account # NoAccount
             /\ customerId # ""
             /\ Len(lines) > 0
             /\ ~loadingQuote
             /\ pending'.payload.customer_id # ""
             /\ Len(pending'.payload.lines) > 0
             /\ ~CalculateDisabled(CardProps(account = NoAccount))
        /\ \A d \in BOOLEAN :
             (customerId = "" \/ Len(lines) = 0 \/ loadingQuote)
                 => CalculateDisabled(CardProps(d))
        /\ (account = NoAccount \/ customerId = "" \/ Len(lines) = 0)
                 => ~RequestIssued
      ]_vars

\* signed in and idle, so the page's own button can be pressed, with a
\* customer chosen but no line: submitQuote returns at its third guard
C19_Witness ==
    /\ account # NoAccount
    /\ ~SubmitDisabled
    /\ customerId = "CUST-A"
    /\ Len(lines) = 0
    /\ pending = NoPending
    /\ CalculateDisabled(CardProps(FALSE))

(***************************************************************************)
(* C20                                                                     *)
(***************************************************************************)
ClampTo(value, range) ==
    IF value < range.min THEN range.min
    ELSE IF value > range.max THEN range.max
    ELSE value

MaterialOptions == {MATERIALS[i] : i \in DOMAIN MATERIALS}

\* the line handleMaterialChange(m) leaves, m chosen on the given line
AfterMaterialChange(line, m) == Merge(line, MaterialChangePatch(line, m))

ClampedInto(before, after, m) ==
    LET c == getConstraints(m) IN
    /\ after.material = m
    /\ after.gauge  = ClampTo(before.gauge,  c.gauge)
    /\ after.width  = ClampTo(before.width,  c.width)
    /\ after.length = ClampTo(before.length, c.length)
    /\ validateGauge(after.gauge, m).isValid
    /\ validateWidth(after.width, m).isValid
    /\ validateLength(after.length, m).isValid

\* C20: after handleMaterialChange(m) the gauge, width and length are the
\* old values clamped into getConstraints(m)'s inclusive ranges (below the
\* minimum -> the minimum, above the maximum -> the maximum, in range ->
\* unchanged), the three validations pass and the render that follows
\* shows no error.  Stated for the handler applied, with every material
\* the select offers, to every line the editor can hold.
C20_MaterialChangeClampsIntoRange ==
    \A m \in MaterialOptions :
        LET after == AfterMaterialChange(edLine, m) IN
        /\ ClampedInto(edLine, after, m)
        /\ ~RenderEditor(after, edRender).hasErrors

\* a Styrene line at Styrene's maxima was switched to Vinyl: all three
\* values came down to Vinyl's maxima and the render shows no error
C20_Witness ==
    LET before == [edLine EXCEPT !.material = "Styrene",
                                 !.gauge = Mil(250), !.width = 65, !.length = 130]
    IN /\ edLine.material = "Vinyl"
       /\ edLine = AfterMaterialChange(before, "Vinyl")
       /\ edLine.gauge = Mil(30) /\ edLine.width = 50 /\ edLine.length = 70
       /\ ~edRender.hasErrors

(***************************************************************************)
(* C21                                                                     *)
(***************************************************************************)
Elements(seq) == {seq[i] : i \in DOMAIN seq}

\* C21: handleMaterialChange(m) leaves the first color and the first
\* surface of m's lists selected, for every material of the select on
\* every line the editor can hold; and from the defaults on, under any
\* sequence of material, color and surface selections, the color is one of
\* the current material's colors and the surface one of its surfaces.
C21_SelectionsBelongToMaterial ==
    /\ \A m \in MaterialOptions :
          LET after == AfterMaterialChange(edLine, m) IN
          /\ after.color   = getColorOptions(m)[1]
          /\ after.surface = getSurfaceOptions(m)[1]
    /\ edLine.color   \in Elements(getColorOptions(edLine.material))
    /\ edLine.surface \in Elements(getSurfaceOptions(edLine.material))

\* a Vinyl line in "Stock Color" / "Velvet One Side", neither of which
\* Styrene offers, was switched to Styrene and shows Styrene's first options
C21_Witness ==
    LET before == [edLine EXCEPT !.material = "Vinyl",
                                 !.color = "Stock Color",
                                 !.surface = "Velvet One Side"]
    IN /\ edLine = AfterMaterialChange(before, "Styrene")
       /\ edLine.color = STYRENE_COLORS[1]
       /\ edLine.surface = STYRENE_SURFACES[1]
       /\ "Stock Color" \notin Elements(getColorOptions(edLine.material))

(***************************************************************************)
(* C30                                                                     *)
(***************************************************************************)
SmallFormatMaterials == {"Vinyl", "APET"}

CustomLinesOf(materials) ==
    {i \in 1..Len(engReq.lines) :
        /\ engReq.lines[i].type = "custom"
        /\ engReq.lines[i].material \in materials}

LineIsLarge(i) == IsLargeSheet(engReq.lines[i].width, engReq.lines[i].length)

\* C30: the Vinyl and APET bounds stay under 72 in both dimensions, so no
\* Vinyl or APET custom line of a request that passed validation is a large
\* sheet; a quote whose only dimensioned lines are such lines gets the $150
\* floor; and a quote whose dimensioned lines are all custom gets the $550
\* floor only through a Styrene line.
C30_OnlyStyreneReachesLargeFloor ==
    /\ \A m \in SmallFormatMaterials :
          Max2(MATERIAL_CONSTRAINTS[m].width.max, MATERIAL_CONSTRAINTS[m].length.max)
              < LARGE_SHEET_MAX_DIMENSION
    /\ EngDone =>
          /\ \A i \in CustomLinesOf(SmallFormatMaterials) :
                /\ ~LineIsLarge(i)
                /\ Max2(engReq.lines[i].width, engReq.lines[i].length) < 72
          /\ DimensionedLines \subseteq CustomLinesOf(SmallFormatMaterials)
                => engResult.applicable_floor = 150
          /\ (/\ engResult.applicable_floor = 550
              /\ \A i \in DimensionedLines : engReq.lines[i].type = "custom")
                => \E i \in CustomLinesOf({"Styrene"}) : LineIsLarge(i)

\* a Vinyl 50 x 70 and an APET 50 x 70 line, the largest their bounds allow,
\* were priced together and the quote was raised to the $150 floor
C30_Witness ==
    /\ EngDone
    /\ Len(engReq.lines) = 2
    /\ engReq.lines[1] = CustomReq("Vinyl", Mil(30), 50, 70, 10)
    /\ engReq.lines[2] = CustomReq("APET", Mil(30), 50, 70, 10)
    /\ engResult.applicable_floor = 150
    /\ engResult.response.quote_total >= 150

(***************************************************************************)
(* C29                                                                     *)
(***************************************************************************)
\* patches the line rows pass to updateLine, and the empty patch
LinePatches ==
    {[quantity |-> 7], [itemSku |-> "KR-4896"], [sheets |-> 5, width |-> 40],
     [description |-> "x"], [f \in {} |-> 0]}

\* indexes (from 0) inside the list and on both sides of it
LineIndexes == (0 - 1)..Len(lines)

ValidIndex(index) == 0 <= index /\ index < Len(lines)

\* C29: updateLine(index, patch) changes only the line at index, which
\* becomes { ...line, ...patch }, and keeps the length; removeLine(index)
\* removes only the line at index, the others keeping their values and
\* their order, and shortens the list by exactly one; an index outside the
\* list leaves the list unchanged.  Stated for both functions applied to
\* every line list the page reaches.
C29_UpdateAndRemoveTouchOneLine ==
    \A index \in LineIndexes :
        /\ \A patch \in LinePatches :
              LET updated == updateLine(lines, index, patch) IN
              /\ Len(updated) = Len(lines)
              /\ \A i \in 1..Len(lines) :
                    updated[i] = IF i = index + 1 THEN Merge(lines[i], patch)
                                 ELSE lines[i]
              /\ ~ValidIndex(index) => updated = lines
        /\ LET removed == removeLine(lines, index) IN
           IF ValidIndex(index)
           THEN /\ Len(removed) = Len(lines) - 1
                /\ \A i \in 1..Len(removed) :
                      removed[i] = IF i <= index THEN lines[i] ELSE lines[i + 1]
           ELSE removed = lines

\* two equal custom lines are on the page: removing the first leaves the
\* second, and updating the second leaves the first as it was
C29_Witness ==
    /\ Len(lines) = 2
    /\ lines[1].kind = "custom"
    /\ lines[1] = lines[2]
    /\ removeLine(lines, 0) = <<lines[2]>>
    /\ updateLine(lines, 1, [sheets |-> 5, width |-> 40])
          = <<lines[1], Merge(lines[2], [sheets |-> 5, width |-> 40])>>

(***************************************************************************)
(* C27, C28                                                                *)
(***************************************************************************)
DeleteCallbacks == [onDeleteCustomer |-> "customer", onDeleteItem |-> "item"]

\* C27: no delete on a single click.  A step that invokes onDeleteCustomer(id)
\* or onDeleteItem(sku) follows a Delete click on that same customer, or that
\* same item, and leaves confirmDelete null; a Delete click on another row
\* than the latest one only arms the confirmation (confirmDelete = key) and
\* invokes nothing.
C27_DeleteNeedsTwoClicksOnTheRow ==
    [][ /\ lastCall'.fn \in DOMAIN DeleteCallbacks =>
              /\ lastDeleteClick = [kind |-> DeleteCallbacks[lastCall'.fn],
                                    key  |-> lastCall'.key]
              /\ confirmDelete' = Null
        /\ lastDeleteClick' # lastDeleteClick =>
              /\ lastCall'.fn = "none"
              /\ confirmDelete' = lastDeleteClick'.key ]_vars

CustomerEditFields == {"column_break", "freight_column_offset"}
ItemEditFields     == {"description", "avg_cost"}

\* C28: a customer row in edit mode has its column_break and
\* freight_column_offset edit fields in editValues, an item row in edit mode
\* its description and avg_cost fields, and what Save hands to
\* onUpdateCustomer carries the column_break of the row's edit session.
C28_EditRowHoldsItsOwnFields ==
    /\ \A i \in DOMAIN customers :
          activeTab = "customers" /\ editingCustomer = customers[i].id
              => CustomerEditFields \subseteq DOMAIN editValues
    /\ \A i \in DOMAIN items :
          activeTab = "items" /\ editingItem = items[i].sku
              => ItemEditFields \subseteq DOMAIN editValues
    /\ lastCall.fn = "onUpdateCustomer"
          => "column_break" \in DOMAIN lastCall.updates

(***************************************************************************)
(* The quote request's failure, the history refresh and the session.      *)
(***************************************************************************)

\* what the backend answers to the request in flight
AnswerInFlight ==
    jsonFetch(PostQuote(pending.payload,
                        [items |-> itemTable, customers |-> CustomerRegistry]))

\* createQuote throws: fetch rejects, or jsonFetch throws on a non-2xx answer
CreateQuoteThrows ==
    \/ CreateQuoteFails
    \/ CreateQuoteResolves /\ ~AnswerInFlight.ok

C23_QuoteNeverWithRefreshError ==
    quote # NoQuote => error # HistoryError

\* C24: loadingQuote is true only while a submitQuote that passed its guards
\* has its request in flight, and every such submitQuote sets it back to
\* false, whether createQuote returns or throws.
C24_LoadingQuoteEndsWithSubmit ==
    /\ [](loadingQuote => pending # NoPending)
    /\ [][loadingQuote' /\ ~loadingQuote =>
             ~submitQuoteReturnsEarly(account, customerId, lines)]_vars
    /\ (loadingQuote ~> ~loadingQuote)

\* a submit that threw has finished: the flag is down again
C24_Witness ==
    /\ ~loadingQuote
    /\ pending = NoPending
    /\ error = QuoteError(NetworkFailure)
    /\ account # NoAccount

\* C25 as stated: once every quote detail response has arrived, the record
\* shown is the one of the id selected last.  The responses are applied in
\* the order they arrive, so this does not hold.
C25_LastSelectedQuoteIsShown ==
    (detail.inFlight = {} /\ selectedQuote # NoQuote)
        => selectedQuote = QuoteDetail(detail.latest)

\* C26 as stated: signed out, the page holds no customers, items, lines,
\* quote, history or selected quote.  Responses of requests started before
\* handleLogout are applied when they arrive, so this does not hold.
C26_SignedOutPageIsEmpty ==
    account = NoAccount =>
        /\ customers = <<>>
        /\ items = <<>>
        /\ lines = <<>>
        /\ quote = NoQuote
        /\ quotesHistory = <<>>
        /\ selectedQuote = NoQuote

====
